---- MODULE Spec2Model ----
(***************************************************************************)
(* Model of the clawup orchestration core: the Rule & Bounds Engine        *)
(* (src/src/core/rule-engine.ts), the bounds lookup of the config loader,  *)
(* the `post` and `engage` CLI commands with the X browser module, and the *)
(* pipeline runner (src/src/core/pipeline-runner.ts).                      *)
(*                                                                         *)
(* Conventions.  Strings that the code inspects character by character     *)
(* (post content, forbidden topics, condition texts) are sequences of      *)
(* one-character strings.  Confidence values are percentages (0.5 = 50).   *)
(* Minutes are integers.  `Undefined` stands for a key that is absent in a *)
(* YAML document, `Infinity` for the JavaScript number Infinity.           *)
(***************************************************************************)
EXTENDS Integers, Sequences, FiniteSets, TLC

VARIABLES
  postsToday,     \* posts table: rows per platform dated today
  lastPostAge,    \* posts table: minutes since the newest row per platform (NoPost if none)
  activity,       \* activity_log table: rows per action type dated today (platform x)
  queue,          \* content_queue table: pending, due rows
  bounds,         \* bounds.yaml document (cachedBounds of the config loader)
  rules,          \* rules.yaml document as the rule engine sees it
  now,            \* wall clock read by new Date(): [hour, minute, day]
  call,           \* arguments of the last rule-engine / CLI call
  preResult,      \* RuleCheckResult returned by the last runPreChecks call
  cmd,            \* outcome of the last CLI command; nth alternates per command
  usedSkipChecks, \* history: some post command ran with --skip-checks
  pipeline,       \* pipeline definition loaded for the run
  options,        \* RunOptions of the run
  pc,             \* position of runPipeline
  idx,            \* index of the step (or phase) being executed
  taskIdx,        \* index of the task being executed within the phase
  stepsExecuted,  \* local stepsExecuted of runPipeline
  errors,         \* local errors[] of runPipeline
  phaseErrors,    \* local errors[] of executePhase
  context,        \* ExecutionContext.results of the run
  stepLog,        \* history: per executed step, its definition and StepResult
  notifier,       \* calls made to the notifier collaborator: [notify, approval]
  handlerRuns,    \* history: how many times each handler list was run
  caught,         \* message of the error caught by runPipeline ("" if none)
  result          \* PipelineResult returned by runPipeline (NoResult before)

storageVars == <<postsToday, lastPostAge, activity, queue>>
configVars == <<bounds, rules>>
callVars == <<call, preResult>>
cmdVars == <<cmd, usedSkipChecks>>
runVars == <<pipeline, options, pc, idx, taskIdx, stepsExecuted, errors,
             phaseErrors, context, stepLog, notifier, handlerRuns, caught, result>>
vars == <<postsToday, lastPostAge, activity, queue, bounds, rules, now, call,
          preResult, cmd, usedSkipChecks, pipeline, options, pc, idx, taskIdx,
          stepsExecuted, errors, phaseErrors, context, stepLog, notifier,
          handlerRuns, caught, result>>

----------------------------------------------------------------------------
(* Bounds of the model *)

MaxCount == 2        \* largest daily ceiling / stored count drawn
MaxLen == 2          \* longest content string drawn
MaxAge == 3          \* largest age (minutes) of the last post tracked
MaxFeed == 2         \* tweets the feed offers to one engage command
MaxSteps == 3        \* longest `steps` list of a pipeline
MaxPhases == 2       \* longest `phases` list of a pipeline

----------------------------------------------------------------------------
(* Values *)

Undefined == -1
Infinity == 1000000
NoPost == -1
NoResult == [none |-> TRUE]
Platforms == {"x"}
Chars == {"a", "b", "B"}
Confidences == {30, 95}

Min(a, b) == IF a <= b THEN a ELSE b

Max(a, b) == IF a >= b THEN a ELSE b

RECURSIVE StringsUpTo(_)
StringsUpTo(n) ==
  IF n = 0 THEN {<<>>}
  ELSE LET shorter == StringsUpTo(n - 1)
       IN shorter \cup {Append(s, c) : s \in {t \in shorter : Len(t) = n - 1}, c \in Chars}

(* String.prototype.toLowerCase on the model alphabet *)
toLowerCase(s) ==
  [i \in 1..Len(s) |-> IF s[i] = "B" THEN "b" ELSE s[i]]

(* String.prototype.includes *)
includes(s, t) ==
  \E i \in 0..(Len(s) - Len(t)) : SubSeq(s, i + 1, i + Len(t)) = t

----------------------------------------------------------------------------
(* Storage collaborator (read side) *)

getTodayPostCount(platform) == postsToday[platform]

getActivityCount(actionType, platform) ==
  IF actionType \in DOMAIN activity THEN activity[actionType] ELSE 0

getLastPostTime(platform) == lastPostAge[platform]

----------------------------------------------------------------------------
(* Config loader: bounds lookup *)

(* bounds.sns?.<subcategory>?.<key>; Undefined when the section, the
   subcategory or the key is absent *)
BoundsKey(subcategory, key) ==
  IF /\ "sns" \in DOMAIN bounds
     /\ subcategory \in DOMAIN bounds.sns
     /\ key \in DOMAIN bounds.sns[subcategory]
  THEN bounds.sns[subcategory][key]
  ELSE Undefined

(* a mutant of checkBounds: an absent ceiling is a ceiling of 0 *)
checkBoundsClosed(category, subcategory, key, value) ==
  LET limit == BoundsKey(subcategory, key)
  IN IF limit = Undefined
     THEN [allowed |-> value <= 0, limit |-> 0]
     ELSE [allowed |-> value <= limit, limit |-> limit]

checkBounds(category, subcategory, key, value) ==
  LET limit == BoundsKey(subcategory, key)
  IN IF limit = Undefined
     THEN [allowed |-> TRUE, limit |-> Infinity]
     ELSE [allowed |-> value <= limit, limit |-> limit]

----------------------------------------------------------------------------
(* Rule engine *)

limitMap ==
  [post        |-> [category |-> "posting",    key |-> "max_per_day"],
   like        |-> [category |-> "engagement", key |-> "max_likes_per_day"],
   follow      |-> [category |-> "engagement", key |-> "max_follows_per_day"],
   follow_back |-> [category |-> "engagement", key |-> "max_follows_per_day"],
   unfollow    |-> [category |-> "engagement", key |-> "max_unfollows_per_day"],
   comment     |-> [category |-> "engagement", key |-> "max_comments_per_day"],
   reply       |-> [category |-> "engagement", key |-> "max_comments_per_day"],
   repost      |-> [category |-> "engagement", key |-> "max_reposts_per_day"],
   dm          |-> [category |-> "engagement", key |-> "max_dms_per_day"]]

(* a mutant of checkDailyLimits: the ceiling is compared with the count itself *)
checkDailyLimitsAtCount(actionType, platform) ==
  IF actionType \notin DOMAIN limitMap
  THEN [allowed |-> TRUE, current |-> 0, limit |-> Infinity,
        remaining |-> Infinity, limitType |-> "unknown"]
  ELSE LET mapping == limitMap[actionType]
           current == IF actionType = "post"
                      THEN getTodayPostCount(platform)
                      ELSE getActivityCount(actionType, platform)
           check == checkBounds("sns", mapping.category, mapping.key, current)
       IN [allowed |-> check.allowed,
           current |-> current,
           limit |-> check.limit,
           remaining |-> IF check.limit = Infinity THEN Infinity
                         ELSE Max(0, check.limit - current),
           limitType |-> mapping.key]

checkDailyLimits(actionType, platform) ==
  IF actionType \notin DOMAIN limitMap
  THEN [allowed |-> TRUE, current |-> 0, limit |-> Infinity,
        remaining |-> Infinity, limitType |-> "unknown"]
  ELSE LET mapping == limitMap[actionType]
           current == IF actionType = "post"
                      THEN getTodayPostCount(platform)
                      ELSE getActivityCount(actionType, platform)
           check == checkBounds("sns", mapping.category, mapping.key, current + 1)
       IN [allowed |-> check.allowed,
           current |-> current,
           limit |-> check.limit,
           remaining |-> IF check.limit = Infinity THEN Infinity
                         ELSE Max(0, check.limit - current),
           limitType |-> mapping.key]

checkMinInterval(platform) ==
  LET minInterval == IF BoundsKey("posting", "min_interval_minutes") = Undefined
                     THEN 30
                     ELSE BoundsKey("posting", "min_interval_minutes")
      lastPost == getLastPostTime(platform)
  IN IF lastPost = NoPost
     THEN [allowed |-> TRUE]
     ELSE IF lastPost < minInterval
          THEN [allowed |-> FALSE,
                reason |-> <<"Minimum interval not met", lastPost, minInterval>>,
                rule |-> "min_interval"]
          ELSE [allowed |-> TRUE]

checkForbiddenTopics(content) ==
  LET forbidden == IF "sns" \in DOMAIN bounds /\ "forbidden_topics" \in DOMAIN bounds.sns
                   THEN bounds.sns.forbidden_topics
                   ELSE {}
      hits == {t \in forbidden : includes(toLowerCase(content), toLowerCase(t))}
  IN IF hits # {}
     THEN [allowed |-> FALSE,
           reason |-> <<"Content contains forbidden topic", CHOOSE t \in hits : TRUE>>,
           rule |-> "forbidden_topics"]
     ELSE [allowed |-> TRUE]

(* A mutant of runPreChecks: the interval check runs before the daily limit *)
runPreChecksIntervalFirst(actionType, platform, content) ==
  LET limitCheck == checkDailyLimits(actionType, platform)
  IN IF actionType = "post" /\ ~checkMinInterval(platform).allowed
     THEN checkMinInterval(platform)
     ELSE IF ~limitCheck.allowed
          THEN [allowed |-> FALSE,
                reason |-> <<"Daily limit reached for", actionType,
                             limitCheck.current, limitCheck.limit>>,
                rule |-> limitCheck.limitType]
          ELSE IF content # <<>> /\ ~checkForbiddenTopics(content).allowed
               THEN checkForbiddenTopics(content)
               ELSE [allowed |-> TRUE]

(* A mutant of runPreChecks: a rule confident enough to be auto-applied *)
(* waives the daily limit.                                              *)
runPreChecksConfident(actionType, platform, content) ==
  LET limitCheck == checkDailyLimits(actionType, platform)
  IN IF ~limitCheck.allowed /\ rules.timing.confidence < bounds.evolution.confidence.auto_apply
     THEN [allowed |-> FALSE,
           reason |-> <<"Daily limit reached for", actionType,
                        limitCheck.current, limitCheck.limit>>,
           rule |-> limitCheck.limitType]
     ELSE IF actionType = "post" /\ ~checkMinInterval(platform).allowed
          THEN checkMinInterval(platform)
          ELSE IF content # <<>> /\ ~checkForbiddenTopics(content).allowed
               THEN checkForbiddenTopics(content)
               ELSE [allowed |-> TRUE]

(* content = <<>> models both an absent and an empty content: both are falsy *)
runPreChecks(actionType, platform, content) ==
  LET limitCheck == checkDailyLimits(actionType, platform)
  IN IF ~limitCheck.allowed
     THEN [allowed |-> FALSE,
           reason |-> <<"Daily limit reached for", actionType,
                        limitCheck.current, limitCheck.limit>>,
           rule |-> limitCheck.limitType]
     ELSE IF actionType = "post" /\ ~checkMinInterval(platform).allowed
          THEN checkMinInterval(platform)
          ELSE IF content # <<>> /\ ~checkForbiddenTopics(content).allowed
               THEN checkForbiddenTopics(content)
               ELSE [allowed |-> TRUE]

(* a mutant of checkTimingRules: the learned lists apply at any confidence *)
checkTimingRulesAtAnyConfidence(forceCheck) ==
  LET timing == rules.timing
  IN IF now.day \in timing.avoid_days
     THEN [isOptimal |-> FALSE, confidence |-> timing.confidence,
           reason |-> "avoid_days"]
     ELSE IF now.hour \in timing.avoid_hours
          THEN [isOptimal |-> FALSE, confidence |-> timing.confidence,
                reason |-> "avoid_hours"]
          ELSE IF timing.best_hours # {}
               THEN [isOptimal |-> now.hour \in timing.best_hours,
                     confidence |-> timing.confidence,
                     reason |-> IF now.hour \in timing.best_hours
                                THEN "best_hours" ELSE "not in best_hours"]
               ELSE [isOptimal |-> TRUE, confidence |-> 0,
                     reason |-> "No timing rules defined"]

checkTimingRules(forceCheck) ==
  LET timing == rules.timing
      minConfidence == bounds.evolution.confidence.min_to_apply
  IN IF timing.confidence < minConfidence /\ ~forceCheck
     THEN [isOptimal |-> TRUE, confidence |-> timing.confidence,
           reason |-> "Insufficient confidence"]
     ELSE IF now.day \in timing.avoid_days
          THEN [isOptimal |-> FALSE, confidence |-> timing.confidence,
                reason |-> "avoid_days"]
          ELSE IF now.hour \in timing.avoid_hours
               THEN [isOptimal |-> FALSE, confidence |-> timing.confidence,
                     reason |-> "avoid_hours"]
               ELSE IF timing.best_hours # {}
                    THEN [isOptimal |-> now.hour \in timing.best_hours,
                          confidence |-> timing.confidence,
                          reason |-> IF now.hour \in timing.best_hours
                                     THEN "best_hours" ELSE "not in best_hours"]
                    ELSE [isOptimal |-> TRUE, confidence |-> 0,
                          reason |-> "No timing rules defined"]

----------------------------------------------------------------------------
(* Documents and idle values shared by the specifications *)

BoundsDoc(maxPerDay, minInterval, forbidden, maxLikes, maxReposts) ==
  [sns |-> [posting |-> [max_per_day |-> maxPerDay,
                         min_interval_minutes |-> minInterval],
            engagement |-> [max_likes_per_day |-> maxLikes,
                            max_reposts_per_day |-> maxReposts],
            forbidden_topics |-> forbidden],
   evolution |-> [confidence |-> [min_to_apply |-> 50, auto_apply |-> 70,
                                  require_approval |-> 90]]]

TimingDoc(confidence, best, avoidHours, avoidDays) ==
  [timing |-> [confidence |-> confidence, best_hours |-> best,
               avoid_hours |-> avoidHours, avoid_days |-> avoidDays]]

NoCall == [none |-> TRUE]
NoPipeline == [none |-> TRUE]

IdleCalls == call = NoCall /\ preResult = NoResult

IdleCommands == cmd = NoCall /\ usedSkipChecks = FALSE

IdleRun ==
  /\ pipeline = NoPipeline
  /\ options = NoCall
  /\ pc = "idle"
  /\ idx = 0
  /\ taskIdx = 0
  /\ stepsExecuted = 0
  /\ errors = <<>>
  /\ phaseErrors = <<>>
  /\ context = <<>>
  /\ stepLog = <<>>
  /\ notifier = [notify |-> 0, approval |-> 0]
  /\ handlerRuns = [on_complete |-> 0, on_error |-> 0]
  /\ caught = ""
  /\ result = NoResult

----------------------------------------------------------------------------
(* Specification SpecPre: calls of runPreChecks against drawn bounds,      *)
(* storage counts and rules; the rules document is reloaded between calls. *)

InitPre ==
  /\ postsToday \in [Platforms -> 0..MaxCount]
  /\ lastPostAge \in [Platforms -> {NoPost, 0, MaxAge}]
  /\ activity \in [{"like"} -> {0, 2}]
  /\ queue = <<>>
  /\ \E maxPerDay \in {Undefined} \cup 0..MaxCount, forbidden \in {{}, {<<"a", "B">>}} :
       bounds = BoundsDoc(maxPerDay, 2, forbidden, 2, 1)
  /\ \E c \in Confidences : rules = TimingDoc(c, {}, {}, {})
  /\ now = [hour |-> 9, minute |-> 0, day |-> "Monday"]
  /\ IdleCalls
  /\ IdleCommands
  /\ IdleRun

ActionTypes == {"post", "like", "tweet"}

PreCheck ==
  \E actionType \in ActionTypes, platform \in Platforms, content \in StringsUpTo(MaxLen) :
    /\ call' = [actionType |-> actionType, platform |-> platform, content |-> content]
    /\ call \in {NoCall, call'}
    /\ preResult' = runPreChecks(actionType, platform, content)
    /\ UNCHANGED <<storageVars, configVars, now, cmdVars, runVars>>

(* the rules document on disk was rewritten by the learning subsystem and *)
(* the rule engine reloads it                                             *)
refreshRules ==
  /\ \E c \in Confidences : rules' = [rules EXCEPT !.timing.confidence = c]
  /\ rules' # rules
  /\ UNCHANGED <<storageVars, bounds, now, callVars, cmdVars, runVars>>

NextPre == PreCheck \/ refreshRules

SpecPre == InitPre /\ [][NextPre]_vars

\* C1: runPreChecks allows an action only if today's count + 1 stays within
\* the ceiling of its action type, the minimum posting interval has elapsed
\* (posts only) and the given content holds no forbidden topic; and with
\* bounds, storage and arguments fixed, the result is the same whatever
\* confidence the rules state holds.
C1_Count(actionType, platform) ==
  IF actionType = "post" THEN postsToday[platform]
  ELSE IF actionType = "like" THEN activity["like"] ELSE 0

C1_Ceiling(actionType) ==
  IF actionType = "post" THEN bounds.sns.posting.max_per_day
  ELSE IF actionType = "like" THEN bounds.sns.engagement.max_likes_per_day
  ELSE Undefined

C1_MinInterval ==
  IF bounds.sns.posting.min_interval_minutes = Undefined THEN 30
  ELSE bounds.sns.posting.min_interval_minutes

C1_Satisfied ==
  /\ C1_Ceiling(call.actionType) # Undefined =>
       C1_Count(call.actionType, call.platform) + 1 <= C1_Ceiling(call.actionType)
  /\ call.actionType = "post" =>
       \/ lastPostAge[call.platform] = NoPost
       \/ lastPostAge[call.platform] >= C1_MinInterval
  /\ call.content # <<>> =>
       \A t \in bounds.sns.forbidden_topics :
         ~includes(toLowerCase(call.content), toLowerCase(t))

C1_AllowedOnlyWithinBounds ==
  (preResult # NoResult /\ preResult.allowed) => C1_Satisfied

C1_SameForEveryConfidence ==
  (preResult # NoResult /\ preResult' # NoResult /\ call' = call
     /\ UNCHANGED <<storageVars, bounds>>) => preResult' = preResult

C1_BoundsDominate ==
  [][C1_AllowedOnlyWithinBounds' /\ C1_SameForEveryConfidence]_vars

C1_Witness ==
  /\ preResult # NoResult
  /\ ~preResult.allowed
  /\ preResult.rule = "max_per_day"
  /\ rules.timing.confidence >= bounds.evolution.confidence.auto_apply

(* the checks of the last call that would deny, each taken alone *)
C23_LimitDenies ==
  /\ C1_Ceiling(call.actionType) # Undefined
  /\ C1_Count(call.actionType, call.platform) + 1 > C1_Ceiling(call.actionType)

C23_IntervalDenies ==
  /\ call.actionType = "post"
  /\ lastPostAge[call.platform] # NoPost
  /\ lastPostAge[call.platform] < C1_MinInterval

C23_TopicDenies ==
  /\ call.content # <<>>
  /\ \E t \in bounds.sns.forbidden_topics :
       includes(toLowerCase(call.content), toLowerCase(t))

\* C23: runPreChecks returns the first denial in the order daily limit,
\* minimum interval (posts only), forbidden topic (content given): a daily
\* limit denial reads "Daily limit reached for <action>: <count>/<limit>"
\* and names the ceiling's key, a later check decides only when the earlier
\* ones allow, and every denial carries a non-empty reason and a rule name.
C23_FirstDenialWins ==
  preResult # NoResult =>
    /\ C23_LimitDenies =>
         preResult = [allowed |-> FALSE,
                      reason |-> <<"Daily limit reached for", call.actionType,
                                   C1_Count(call.actionType, call.platform),
                                   C1_Ceiling(call.actionType)>>,
                      rule |-> IF call.actionType = "post" THEN "max_per_day"
                               ELSE "max_likes_per_day"]
    /\ (~C23_LimitDenies /\ C23_IntervalDenies) =>
         (~preResult.allowed /\ preResult.rule = "min_interval")
    /\ (~C23_LimitDenies /\ ~C23_IntervalDenies /\ C23_TopicDenies) =>
         (~preResult.allowed /\ preResult.rule = "forbidden_topics")
    /\ (~C23_LimitDenies /\ ~C23_IntervalDenies /\ ~C23_TopicDenies) =>
         preResult.allowed
    /\ ~preResult.allowed => (preResult.reason # <<>> /\ preResult.rule # "")

(* a post at the ceiling, too soon after the last one, on a forbidden topic *)
C23_Witness ==
  /\ preResult # NoResult
  /\ C23_LimitDenies
  /\ C23_IntervalDenies
  /\ C23_TopicDenies
  /\ preResult.rule = "max_per_day"

----------------------------------------------------------------------------
(* Storage collaborator (write side) and the X browser module *)

(* recordPost: one row in posts, dated now *)
recordPost(platform) ==
  /\ postsToday' = [postsToday EXCEPT ![platform] = @ + 1]
  /\ lastPostAge' = [lastPostAge EXCEPT ![platform] = 0]

(* recordActivity: n rows of one action type in activity_log *)
recordActivity(log, actionType, n) ==
  [a \in DOMAIN log |-> IF a = actionType THEN log[a] + n ELSE log[a]]

(* outcomes of the browser session of postToX: the tweet is submitted, the *)
(* session is not logged in, or a page operation throws before the submit  *)
BrowserOutcomes == {"ok", "not_logged_in", "error"}

(* A mutant of postToX: the post is recorded twice *)
postToXTwice(outcome) ==
  IF outcome = "ok"
  THEN /\ postsToday' = [postsToday EXCEPT !["x"] = @ + 2]
       /\ lastPostAge' = [lastPostAge EXCEPT !["x"] = 0]
       /\ activity' = recordActivity(activity, "post", 1)
  ELSE UNCHANGED <<postsToday, lastPostAge, activity>>

postToX(outcome) ==
  IF outcome = "ok"
  THEN /\ recordPost("x")
       /\ activity' = recordActivity(activity, "post", 1)
  ELSE UNCHANGED <<postsToday, lastPostAge, activity>>

----------------------------------------------------------------------------
(* Specification SpecPost: `post` commands for platform x, one at a time,  *)
(* with the clock advancing between them.                                  *)

InitPost ==
  /\ postsToday = [p \in Platforms |-> 0]
  /\ lastPostAge = [p \in Platforms |-> NoPost]
  /\ activity = [a \in {"post", "like", "repost"} |-> 0]
  /\ queue = <<>>
  /\ \E maxPerDay \in {Undefined} \cup 0..MaxCount :
       bounds = BoundsDoc(maxPerDay, 2, {<<"a", "B">>}, 2, 1)
  /\ rules = TimingDoc(95, {}, {}, {})
  /\ now = [hour |-> 9, minute |-> 0, day |-> "Monday"]
  /\ IdleCalls
  /\ IdleCommands
  /\ IdleRun

(* executePost, from the option parsing to process exit.  The channel is   *)
(* enabled and names no tone, and the rules hold no content rule, so the   *)
(* content reaches the checks as given.  `similar` is the verdict of       *)
(* checkSimilarity on the recent posts.                                    *)
executePost(content, skipChecks, dryRun, similar, outcome) ==
  LET preCheck == runPreChecks("post", "x", content)
      passed == skipChecks \/ (preCheck.allowed /\ ~similar)
      publish == passed /\ ~dryRun
  IN /\ content # <<>>
     /\ postsToday["x"] <= MaxCount
     /\ usedSkipChecks' = (usedSkipChecks \/ skipChecks)
     /\ IF publish
        THEN postToX(outcome)
        ELSE UNCHANGED <<postsToday, lastPostAge, activity>>
     /\ cmd' = [command |-> "post",
                nth |-> IF cmd = NoCall THEN 1 ELSE 1 - cmd.nth,
                skipChecks |-> skipChecks,
                dryRun |-> dryRun,
                preCheck |-> IF skipChecks THEN NoResult ELSE preCheck,
                published |-> publish /\ outcome = "ok",
                exit |-> IF ~passed \/ (publish /\ outcome # "ok") THEN 1 ELSE 0]
     /\ UNCHANGED <<queue, configVars, now, callVars, runVars>>

PostCommand ==
  \E content \in StringsUpTo(MaxLen), skipChecks \in BOOLEAN, dryRun \in BOOLEAN,
     similar \in BOOLEAN, outcome \in BrowserOutcomes :
    /\ (dryRun \/ similar) => outcome = "ok"
    /\ executePost(content, skipChecks, dryRun, similar, outcome)

(* a minute passes: every stored post is one minute older *)
Tick ==
  /\ \E p \in Platforms : lastPostAge[p] \notin {NoPost, MaxAge}
  /\ lastPostAge' = [p \in Platforms |->
                       IF lastPostAge[p] = NoPost THEN NoPost
                       ELSE Min(lastPostAge[p] + 1, MaxAge)]
  /\ UNCHANGED <<postsToday, activity, queue, configVars, now, callVars, cmdVars, runVars>>

(* midnight passes: no row of posts or activity_log is dated today *)
NewDay ==
  /\ \E p \in Platforms : postsToday[p] > 0
  /\ postsToday' = [p \in Platforms |-> 0]
  /\ activity' = [a \in DOMAIN activity |-> 0]
  /\ UNCHANGED <<lastPostAge, queue, configVars, now, callVars, cmdVars, runVars>>

NextPost == PostCommand \/ Tick \/ NewDay

SpecPost == InitPost /\ [][NextPost]_vars

\* C2: with post commands run one at a time and none using --skip-checks,
\* a command publishes only after its own runPreChecks('post', ...) passed,
\* a successful publish adds exactly one row to posts, and so the posts
\* recorded for the platform today never exceed posting.max_per_day.
C2_WithinCeiling ==
  \A p \in Platforms :
    bounds.sns.posting.max_per_day # Undefined =>
      postsToday[p] <= bounds.sns.posting.max_per_day

C2_PublishStep ==
  (cmd' # cmd /\ cmd'.published) =>
    /\ ~cmd'.skipChecks => cmd'.preCheck.allowed
    /\ postsToday' = [postsToday EXCEPT !["x"] = @ + 1]

C2_PostsWithinDailyBound ==
  [][/\ C2_PublishStep
     /\ postsToday' # postsToday => (postsToday'["x"] = 0 \/ (cmd' # cmd /\ cmd'.published))
     /\ ~usedSkipChecks' => C2_WithinCeiling']_vars

C2_Witness ==
  /\ ~usedSkipChecks
  /\ cmd # NoCall
  /\ cmd.published
  /\ bounds.sns.posting.max_per_day # Undefined
  /\ postsToday["x"] = bounds.sns.posting.max_per_day
  /\ postsToday["x"] >= 2

----------------------------------------------------------------------------
(* Specification SpecEngage: `engage` commands for platform x with the     *)
(* feed actions like, repost and all.                                      *)

InitEngage ==
  /\ postsToday = [p \in Platforms |-> 0]
  /\ lastPostAge = [p \in Platforms |-> NoPost]
  /\ activity = [a \in {"post", "like", "repost"} |-> 0]
  /\ queue = <<>>
  /\ \E maxLikes \in {Undefined, 1, 2}, maxReposts \in {Undefined, 1} :
       bounds = BoundsDoc(MaxCount, 2, {}, maxLikes, maxReposts)
  /\ rules = TimingDoc(95, {}, {}, {})
  /\ now = [hour |-> 9, minute |-> 0, day |-> "Monday"]
  /\ IdleCalls
  /\ IdleCommands
  /\ IdleRun

(* engageWithFeed: walks the tweets the feed offers; each tweet is liked   *)
(* while likes < maxLikes and reposted while reposts < maxReposts, at      *)
(* random; likePost and repostTweet record one activity row per success.   *)
(* `likes` and `reposts` are the numbers of successes of the walk.         *)
engageWithFeed(maxLikes, maxReposts, likes, reposts) ==
  /\ likes <= Min(maxLikes, MaxFeed)
  /\ reposts <= Min(maxReposts, MaxFeed)
  /\ activity' = recordActivity(recordActivity(activity, "like", likes), "repost", reposts)

(* executeEngage for an enabled channel; limit = Undefined when --limit is absent *)
executeEngage(action, limit, dryRun, likes, reposts) ==
  LET engagementBounds == bounds.sns.engagement
      limitCheck == checkDailyLimits(action, "x")
      denied == action # "all" /\ ~limitCheck.allowed
      maxLikes == IF action \in {"like", "all"}
                  THEN IF limit # Undefined THEN limit
                       ELSE IF engagementBounds.max_likes_per_day # Undefined
                            THEN engagementBounds.max_likes_per_day ELSE 20
                  ELSE 0
      maxReposts == IF action \in {"repost", "all"}
                    THEN IF limit # Undefined THEN limit
                         ELSE IF engagementBounds.max_reposts_per_day # Undefined
                              THEN engagementBounds.max_reposts_per_day ELSE 5
                    ELSE 0
  IN /\ activity["like"] <= MaxCount
     /\ activity["repost"] <= MaxCount
     /\ IF denied \/ dryRun
        THEN likes = 0 /\ reposts = 0 /\ UNCHANGED activity
        ELSE engageWithFeed(maxLikes, maxReposts, likes, reposts)
     /\ cmd' = [command |-> "engage",
                nth |-> IF cmd = NoCall THEN 1 ELSE 1 - cmd.nth,
                action |-> action,
                dryRun |-> dryRun,
                likes |-> likes,
                reposts |-> reposts,
                exit |-> IF denied THEN 1 ELSE 0]
     /\ UNCHANGED <<postsToday, lastPostAge, queue, configVars, now, callVars,
                    usedSkipChecks, runVars>>

EngageCommand ==
  \E action \in {"like", "repost", "all"}, limit \in {Undefined} \cup 1..MaxFeed,
     dryRun \in BOOLEAN, likes \in 0..MaxFeed, reposts \in 0..MaxFeed :
    executeEngage(action, limit, dryRun, likes, reposts)

NextEngage == EngageCommand

SpecEngage == InitEngage /\ [][NextEngage]_vars

\* C3: after any engage command (like, repost or all, with or without
\* --limit) the likes recorded today do not exceed max_likes_per_day and the
\* reposts recorded today do not exceed max_reposts_per_day.
C3_EngagementWithinBounds ==
  /\ bounds.sns.engagement.max_likes_per_day # Undefined =>
       activity["like"] <= bounds.sns.engagement.max_likes_per_day
  /\ bounds.sns.engagement.max_reposts_per_day # Undefined =>
       activity["repost"] <= bounds.sns.engagement.max_reposts_per_day

----------------------------------------------------------------------------
(* Similarity service (src/src/services/similarity.ts) and                 *)
(* the string-similarity package it calls.  Scores are exact fractions     *)
(* [num, den]; thresholds are per mille (0.6 = 600).                       *)

SimChars == {"a", "B", "@", "#", " "}

WordChars == {"a", "b", "B", "c"}

RECURSIVE TextsUpTo(_)
TextsUpTo(n) ==
  IF n = 0 THEN {<<>>}
  ELSE LET shorter == TextsUpTo(n - 1)
       IN shorter \cup {Append(s, c) : s \in {t \in shorter : Len(t) = n - 1}, c \in SimChars}

(* s without its longest prefix of word characters *)
RECURSIVE DropWord(_)
DropWord(s) ==
  IF s # <<>> /\ Head(s) \in WordChars THEN DropWord(Tail(s)) ELSE s

(* replace(/@\w+/g, '') and replace(/#\w+/g, ''): sigil is "@" or "#" *)
RECURSIVE RemoveTagged(_, _)
RemoveTagged(s, sigil) ==
  IF s = <<>> THEN <<>>
  ELSE IF Head(s) = sigil /\ Len(s) >= 2 /\ s[2] \in WordChars
       THEN RemoveTagged(DropWord(Tail(s)), sigil)
       ELSE <<Head(s)>> \o RemoveTagged(Tail(s), sigil)

(* replace(/\s+/g, ' ') *)
RECURSIVE CollapseSpaces(_)
CollapseSpaces(s) ==
  IF s = <<>> THEN <<>>
  ELSE IF Head(s) = " " /\ Len(s) >= 2 /\ s[2] = " "
       THEN CollapseSpaces(Tail(s))
       ELSE <<Head(s)>> \o CollapseSpaces(Tail(s))

(* String.prototype.trim after the collapse: at most one space at each end *)
Trim(s) ==
  LET from == IF s # <<>> /\ s[1] = " " THEN 2 ELSE 1
      to == IF s # <<>> /\ s[Len(s)] = " " THEN Len(s) - 1 ELSE Len(s)
  IN SubSeq(s, from, to)

(* replace(/\s+/g, '') of compareTwoStrings *)
RECURSIVE RemoveSpaces(_)
RemoveSpaces(s) ==
  IF s = <<>> THEN <<>>
  ELSE IF Head(s) = " " THEN RemoveSpaces(Tail(s))
       ELSE <<Head(s)>> \o RemoveSpaces(Tail(s))

(* lower case, mentions and hashtags removed, whitespace normalised; the   *)
(* URL pattern needs the text "http" and matches nothing on SimChars       *)
preprocessText(text) ==
  Trim(CollapseSpaces(RemoveTagged(RemoveTagged(toLowerCase(text), "@"), "#")))

Bigrams(s) == [i \in 1..(Len(s) - 1) |-> <<s[i], s[i + 1]>>]

RemoveAt(s, i) == SubSeq(s, 1, i - 1) \o SubSeq(s, i + 1, Len(s))

(* bigrams of `second` matched one-to-one against the bigrams left of `first` *)
RECURSIVE IntersectionSize(_, _)
IntersectionSize(firstBigrams, secondBigrams) ==
  IF secondBigrams = <<>> THEN 0
  ELSE LET hits == {i \in 1..Len(firstBigrams) : firstBigrams[i] = Head(secondBigrams)}
       IN IF hits = {}
          THEN IntersectionSize(firstBigrams, Tail(secondBigrams))
          ELSE 1 + IntersectionSize(RemoveAt(firstBigrams, CHOOSE i \in hits : TRUE),
                                    Tail(secondBigrams))

Score(num, den) == [num |-> num, den |-> den]

AtLeast(a, b) == a.num * b.den >= b.num * a.den

(* stringSimilarity.compareTwoStrings: the Dice coefficient on bigrams *)
compareTwoStrings(first, second) ==
  LET a == RemoveSpaces(first)
      b == RemoveSpaces(second)
  IN IF a = b THEN Score(1, 1)
     ELSE IF Len(a) < 2 \/ Len(b) < 2 THEN Score(0, 1)
     ELSE Score(2 * IntersectionSize(Bigrams(a), Bigrams(b)), Len(a) + Len(b) - 2)

(* stringSimilarity.findBestMatch: the first target with the highest rating *)
RECURSIVE findBestMatch(_, _, _)
findBestMatch(main, targets, i) ==
  IF i = Len(targets) THEN [rating |-> compareTwoStrings(main, targets[i]), index |-> i]
  ELSE LET here == compareTwoStrings(main, targets[i])
           rest == findBestMatch(main, targets, i + 1)
       IN IF AtLeast(here, rest.rating) THEN [rating |-> here, index |-> i] ELSE rest

(* match is the index of the matched entry of compareTo, 0 for null *)
findMostSimilar(content, compareTo) ==
  IF compareTo = <<>> THEN [similarity |-> Score(0, 1), match |-> 0]
  ELSE IF preprocessText(content) = <<>> THEN [similarity |-> Score(0, 1), match |-> 0]
  ELSE LET best == findBestMatch(preprocessText(content),
                                 [i \in 1..Len(compareTo) |-> preprocessText(compareTo[i])], 1)
       IN [similarity |-> best.rating, match |-> best.index]

DefaultThreshold == 600

(* comparePosts are options.comparePosts or the posted rows of the platform *)
checkSimilarity(content, comparePosts, threshold) ==
  LET limit == IF threshold = Undefined THEN DefaultThreshold ELSE threshold
      found == findMostSimilar(content, comparePosts)
  IN IF comparePosts = <<>>
     THEN [isSimilar |-> FALSE, highestSimilarity |-> Score(0, 1), threshold |-> limit]
     ELSE [isSimilar |-> AtLeast(found.similarity, Score(limit, 1000)),
           highestSimilarity |-> found.similarity, threshold |-> limit]

----------------------------------------------------------------------------
(* Pipeline runner: values, context and condition evaluation *)

(* JavaScript values held by the execution context, tagged by type *)
UndefinedValue == [type |-> "undefined"]
NullValue == [type |-> "null"]
BooleanValue(b) == [type |-> "boolean", v |-> b]
NumberValue(n) == [type |-> "number", v |-> n]
StringValue(s) == [type |-> "string", v |-> s]
ObjectValue(fields) == [type |-> "object", fields |-> fields]
ArrayValue(items) == [type |-> "array", items |-> items]

Digit(d) == <<"0", "1", "2", "3", "4", "5", "6", "7", "8", "9">>[d + 1]

(* decimal text of a number below 100 *)
NumberText(n) == IF n < 10 THEN <<Digit(n)>> ELSE <<Digit(n \div 10), Digit(n % 10)>>

(* JSON.stringify as used inside String.prototype.replace: an undefined    *)
(* result is inserted as the text "undefined"; objects and arrays are      *)
(* rendered by their brackets only                                         *)
JSONstringify(value) ==
  CASE value.type = "undefined" -> <<"u", "n", "d", "e", "f", "i", "n", "e", "d">>
    [] value.type = "null" -> <<"n", "u", "l", "l">>
    [] value.type = "boolean" -> IF value.v THEN <<"t", "r", "u", "e">>
                                 ELSE <<"f", "a", "l", "s", "e">>
    [] value.type = "number" -> NumberText(value.v)
    [] value.type = "string" -> <<"\"">> \o value.v \o <<"\"">>
    [] value.type = "object" -> <<"{", "}">>
    [] value.type = "array" -> <<"[", "]">>

(* String(value); an array is joined with commas, null and undefined      *)
(* elements giving the empty text                                          *)
RECURSIVE JSString(_)
JSString(value) ==
  CASE value.type = "undefined" -> <<"u", "n", "d", "e", "f", "i", "n", "e", "d">>
    [] value.type = "null" -> <<"n", "u", "l", "l">>
    [] value.type = "boolean" -> IF value.v THEN <<"t", "r", "u", "e">>
                                 ELSE <<"f", "a", "l", "s", "e">>
    [] value.type = "number" -> NumberText(value.v)
    [] value.type = "string" -> value.v
    [] value.type = "object" -> <<"[", "o", "b", "j", "e", "c", "t", " ",
                                  "O", "b", "j", "e", "c", "t", "]">>
    [] value.type = "array" ->
         IF value.items = <<>> THEN <<>>
         ELSE LET first == IF Head(value.items).type \in {"undefined", "null"} THEN <<>>
                           ELSE JSString(Head(value.items))
              IN IF Len(value.items) = 1 THEN first
                 ELSE first \o <<",">> \o JSString(ArrayValue(Tail(value.items)))

(* the numbers of a list of the rules document, in ascending order *)
RECURSIVE Ascending(_)
Ascending(numbers) ==
  IF numbers = {} THEN <<>>
  ELSE LET least == CHOOSE n \in numbers : \A other \in numbers : n <= other
       IN <<NumberValue(least)>> \o Ascending(numbers \ {least})

(* context.rules: the rules document as a value *)
RulesValue ==
  ObjectValue([timing |-> ObjectValue(
     [confidence |-> NumberValue(rules.timing.confidence),
      best_hours |-> ArrayValue(Ascending(rules.timing.best_hours))])])

(* context.variables of a run, and with the loop variable of a for_each pass *)
NoVariables == [name \in {} |-> UndefinedValue]

WithVariable(variables, name, value) ==
  [n \in DOMAIN variables \cup {name} |-> IF n = name THEN value ELSE variables[n]]

(* the object getValueFromContext and resolveVariables traverse: the       *)
(* variables, overridden by the results, overridden by the documents       *)
ContextRootWith(variables, results) ==
  [name \in {"current_hour", "current_day", "rules"} \cup DOMAIN variables
             \cup DOMAIN results |->
     IF name = "rules" THEN RulesValue
     ELSE IF name \in DOMAIN results THEN results[name]
     ELSE IF name \in DOMAIN variables THEN variables[name]
     ELSE IF name = "current_hour" THEN NumberValue(now.hour)
     ELSE StringValue(<<"d">>)]

ContextRoot(results) == ContextRootWith(NoVariables, results)

RECURSIVE Traverse(_, _)
Traverse(current, parts) ==
  IF parts = <<>> THEN current
  ELSE IF current.type \in {"undefined", "null"} THEN UndefinedValue
  ELSE IF current.type = "object" /\ Head(parts) \in DOMAIN current.fields
       THEN Traverse(current.fields[Head(parts)], Tail(parts))
       ELSE IF Tail(parts) = <<>> THEN UndefinedValue
            ELSE Traverse(UndefinedValue, Tail(parts))

(* getValueFromContext on the context of a for_each pass *)
getValueFromContextWith(path, variables, results) ==
  Traverse(ObjectValue(ContextRootWith(variables, results)), path)

getValueFromContext(path, results) ==
  Traverse(ObjectValue(ContextRoot(results)), path)

(* A condition text is a sequence of tokens: a `${path}` placeholder       *)
(* (kind "ref"), a bare identifier (kind "id") or other characters (kind   *)
(* "text"); `text` is the token as written.                                *)
RefToken(path, text) == [kind |-> "ref", path |-> path, text |-> text]
IdToken(path, text) == [kind |-> "id", path |-> path, text |-> text]
TextToken(text) == [kind |-> "text", path |-> <<>>, text |-> text]

KeptWords == {<<"t", "r", "u", "e">>, <<"f", "a", "l", "s", "e">>,
              <<"n", "u", "l", "l">>, <<"u", "n", "d", "e", "f", "i", "n", "e", "d">>}

ResolveToken(token, results) ==
  CASE token.kind = "ref" -> JSONstringify(getValueFromContext(token.path, results))
    [] token.kind = "id" ->
         IF token.text \in KeptWords THEN token.text
         ELSE IF getValueFromContext(token.path, results) # UndefinedValue
              THEN JSONstringify(getValueFromContext(token.path, results))
              ELSE token.text
    [] token.kind = "text" -> token.text

RECURSIVE Concat(_)
Concat(pieces) ==
  IF pieces = <<>> THEN <<>> ELSE Head(pieces) \o Concat(Tail(pieces))

(* resolveVariable on a text of tokens: a placeholder whose value is       *)
(* defined becomes String(value), any other token stays as written         *)
resolveVariable(template, variables, results) ==
  [i \in 1..Len(template) |->
     IF template[i].kind = "ref"
        /\ getValueFromContextWith(template[i].path, variables, results) # UndefinedValue
     THEN TextToken(JSString(getValueFromContextWith(template[i].path, variables, results)))
     ELSE template[i]]

(* the characters of a text of tokens *)
TextOf(template) == Concat([i \in 1..Len(template) |-> template[i].text])

(* getValueFromContext(step.input) of the service handlers: the resolved   *)
(* input is read as a path.  A placeholder left unresolved and a dotted    *)
(* identifier are looked up; anything else names no entry of the context   *)
(* (the texts drawn spell no context key)                                  *)
InputValue(input, variables, results) ==
  IF Len(input) = 1 /\ input[1].kind \in {"ref", "id"}
  THEN getValueFromContextWith(input[1].path, variables, results)
  ELSE UndefinedValue

(* typeof input === 'string' ? input : String(input) *)
ContentOf(value) == JSString(value)

(* the condition text after both replace passes *)
withContext(condition, results) ==
  Concat([i \in 1..Len(condition) |-> ResolveToken(condition[i], results)])

(* Boolean(withContext): a string is truthy iff it is not empty *)
evaluateCondition(condition, results) == Len(withContext(condition, results)) > 0

----------------------------------------------------------------------------
(* Pipeline runner: step results and handlers *)

StepResult(success, skipped, skipReason, output, error) ==
  [success |-> success, skipped |-> skipped, skipReason |-> skipReason,
   output |-> output, error |-> error, thrown |-> FALSE, effect |-> "none",
   detail |-> <<>>, message |-> <<>>, passes |-> <<>>]

Success(output) == StepResult(TRUE, FALSE, "", output, "")

Skipped(reason) == StepResult(TRUE, TRUE, reason, UndefinedValue, "")

Failure(error) == StepResult(FALSE, FALSE, "", UndefinedValue, error)

(* a handler that throws: executeStep catches it *)
Thrown(error) == [Failure(error) EXCEPT !.thrown = TRUE]

WithEffect(stepResult, effect) == [stepResult EXCEPT !.effect = effect]

(* the text interpolated into the error message *)
WithDetail(stepResult, detail) == [stepResult EXCEPT !.detail = detail]

(* the text handed to the notifier or the logger *)
WithMessage(stepResult, message) == [stepResult EXCEPT !.message = message]

RECURSIVE DecimalText(_)
DecimalText(n) ==
  IF n < 10 THEN <<Digit(n)>> ELSE Append(DecimalText(n \div 10), Digit(n % 10))

(* `${(score * 100).toFixed(1)}%`: the score in tenths of a percent, rounded *)
PercentText(score) ==
  LET tenths == (2000 * score.num + score.den) \div (2 * score.den)
  IN DecimalText(tenths \div 10) \o <<".", Digit(tenths % 10), "%">>

(* the content a service step hands to its service *)
ServiceContent(step, variables, results) ==
  ContentOf(IF step.input # <<>> THEN InputValue(step.input, variables, results)
            ELSE UndefinedValue)

(* the posted rows of the platform, when there are any: the text of the    *)
(* queue item, and a text one character longer than "undefined"            *)
RecentPosts == <<<<"a">>, <<"u", "n", "d", "e", "f", "i", "n", "e", "d", "b">>>>

(* What the collaborators answer to the handler of one step: the storage   *)
(* query throws (kind "throw") or returns (kind "ok"); to the similarity   *)
(* validator it returns the posted rows of the platform                    *)
Answer(kind, rows) == [kind |-> kind, rows |-> rows]

Answers(step) ==
  IF step.action \in {"queue_pop", "queue.pop"}
  THEN {Answer("ok", <<>>), Answer("throw", <<>>)}
  ELSE IF step.service = <<"shared", "validator", "similarity">>
       THEN {Answer("ok", <<>>), Answer("ok", RecentPosts), Answer("throw", <<>>)}
       ELSE {Answer("ok", <<>>)}

Tones == {"casual", "formal", "witty"}

executeBuiltinAction(step, opts, answer) ==
  CASE step.action \in {"queue_pop", "queue.pop"} ->
         IF answer.kind = "throw" THEN Thrown("storage error")
         ELSE IF queue = <<>> THEN Skipped("Queue is empty")
         ELSE Success(Head(queue))
    [] step.action = "channel.post" ->
         IF opts.dryRun
         THEN Success(ObjectValue([post_id |-> StringValue(<<"d">>)]))
         ELSE Success(ObjectValue([post_id |-> StringValue(<<"p">>)]))
    [] step.action = "db_insert" -> Success(UndefinedValue)
    [] step.action \in {"telegram_send", "telegram.send"} ->
         IF opts.dryRun THEN WithMessage(Success(UndefinedValue), TextOf(step.input))
         ELSE WithEffect(WithMessage(Success(UndefinedValue), TextOf(step.input)), "notify")
    [] step.action = "log" -> WithMessage(Success(UndefinedValue), TextOf(step.input))
    [] step.action = "wait" -> Success(UndefinedValue)
    [] OTHER -> Success(NullValue)

(* a mutant of executeService: a similar content is reported as a success *)
executeServiceLenient(step, variables, results, opts, answer) ==
  IF answer.kind = "throw" THEN Thrown("storage error")
  ELSE Success(ObjectValue([isSimilar |-> BooleanValue(
         checkSimilarity(ServiceContent(step, variables, results), answer.rows,
                         Undefined).isSimilar)]))

executeService(step, variables, results, opts, answer) ==
  LET parts == step.service
      content == ServiceContent(step, variables, results)
  IN IF parts[1] # "shared" THEN Failure("Unknown service")
     ELSE CASE parts[2] = "tone" ->
                 IF parts[3] \in Tones
                 THEN Success(StringValue(content))
                 ELSE StepResult(FALSE, FALSE, "", StringValue(content), "")
            [] parts[2] = "validator" ->
                 IF parts[3] = "similarity"
                 THEN IF answer.kind = "throw" THEN Thrown("storage error")
                      ELSE LET found == checkSimilarity(content, answer.rows, Undefined)
                           IN IF found.isSimilar
                              THEN WithDetail(Failure("Similar content found"),
                                              PercentText(found.highestSimilarity))
                              ELSE Success(ObjectValue(
                                     [isSimilar |-> BooleanValue(FALSE)]))
                 ELSE Success(UndefinedValue)
            [] parts[2] = "approval" ->
                 IF parts[3] = "telegram"
                 THEN WithEffect(Success(ObjectValue([requestId |-> StringValue(<<"r">>)])),
                                 "approval")
                 ELSE Success(UndefinedValue)
            [] parts[2] = "transformer" ->
                 Success(IF step.input # <<>> THEN InputValue(step.input, variables, results)
                         ELSE UndefinedValue)
            [] OTHER -> Failure("Unknown service category")

executeQuery(step) == Success(ArrayValue(<<>>))

(* step.enabled is absent, a boolean or a condition text *)
EnabledAbsent == [type |-> "undefined"]
EnabledBoolean(b) == [type |-> "boolean", v |-> b]
EnabledString(condition) == [type |-> "string", v |-> condition]

(* step.for_each: "<varName> in <sourceName>", or absent *)
NoForEach == [present |-> FALSE]
ForEach(varName, sourceName) ==
  [present |-> TRUE, varName |-> varName, sourceName |-> sourceName]

(* resolveVariables on a step: its input, and the inputs of its nested steps *)
resolveVariables(step, variables, results) ==
  [step EXCEPT
     !.input = resolveVariable(step.input, variables, results),
     !.steps = [j \in 1..Len(step.steps) |->
                  [step.steps[j] EXCEPT
                     !.input = resolveVariable(step.steps[j].input, variables, results)]]]

(* the names a step of the run or of a for_each pass can read *)
Visible(variables, results) ==
  [n \in DOMAIN variables \cup DOMAIN results |->
     IF n \in DOMAIN results THEN results[n] ELSE variables[n]]

RECURSIVE executeStep(_, _, _, _, _)

(* passes: per pass, the element and the results of the nested steps, which *)
(* the handler drops                                                        *)
executeForEach(step, variables, results, opts, answer) ==
  LET source == getValueFromContextWith(step.for_each.sourceName, variables, results)
  IN IF source.type # "array" THEN Failure("for_each source is not an array")
     ELSE LET maxIterations == IF step.max_iterations = Undefined THEN Len(source.items)
                               ELSE step.max_iterations
              count == Max(0, Min(Len(source.items), maxIterations))
          IN [Success(ArrayValue(SubSeq(source.items, 1, count))) EXCEPT !.passes =
                [i \in 1..count |->
                   [item |-> source.items[i],
                    results |-> [j \in 1..Len(step.steps) |->
                       executeStep(step.steps[j],
                                   WithVariable(variables, step.for_each.varName,
                                                source.items[i]),
                                   results, opts, answer)]]]]

executeStep(step, variables, results, opts, answer) ==
  IF step.condition # <<>>
     /\ ~evaluateCondition(step.condition, Visible(variables, results))
  THEN Skipped("Condition not met")
  ELSE IF step.enabled.type # "undefined"
          /\ ~(IF step.enabled.type = "string"
               THEN evaluateCondition(step.enabled.v, Visible(variables, results))
               ELSE step.enabled.v)
       THEN Skipped("Step disabled")
       ELSE LET resolvedStep == resolveVariables(step, variables, results)
                returned ==
                  IF step.action # "" THEN executeBuiltinAction(resolvedStep, opts, answer)
                  ELSE IF step.service # <<>>
                       THEN executeService(resolvedStep, variables, results, opts, answer)
                  ELSE IF step.query # "" THEN executeQuery(resolvedStep)
                  ELSE IF step.for_each.present
                       THEN executeForEach(resolvedStep, variables, results, opts, answer)
                  ELSE Failure("Unknown step type")
            IN IF returned.thrown
               THEN IF step.on_fail = "skip"
                    THEN Skipped(returned.error)
                    ELSE Failure(returned.error)
               ELSE returned

----------------------------------------------------------------------------
(* Pipeline definitions drawn for the runs *)

Step(name, action, service, query, input, output, condition, enabled, on_fail) ==
  [name |-> name, action |-> action, service |-> service, query |-> query,
   input |-> input, output |-> output, condition |-> condition,
   enabled |-> enabled, on_fail |-> on_fail,
   for_each |-> NoForEach, max_iterations |-> Undefined, steps |-> <<>>]

ForEachStep(name, varName, sourceName, max_iterations, steps, output) ==
  [Step(name, "", <<>>, "", <<>>, output, <<>>, EnabledAbsent, "") EXCEPT
     !.for_each = ForEach(varName, sourceName),
     !.max_iterations = max_iterations,
     !.steps = steps]

(* step.input as written: a literal text, or the path of the queue item's content *)
InputText == <<TextToken(<<"a">>)>>
ItemContentPath == <<IdToken(<<"item", "content">>, <<"i", ".", "c">>)>>

ActionStep(name, action, input, output) ==
  Step(name, action, <<>>, "", input, output, <<>>, EnabledAbsent, "")

SimilarityStep(on_fail) ==
  Step("check", "", <<"shared", "validator", "similarity">>, "", ItemContentPath, "check",
       <<>>, EnabledAbsent, on_fail)

ItemRef == RefToken(<<"item">>, <<"$", "{", "i", "}">>)

StepDefs ==
  {ActionStep("pop", "queue_pop", <<>>, "item"),
   ActionStep("post", "channel.post", InputText, ""),
   ActionStep("send", "telegram_send", InputText, ""),
   Step("approve", "", <<"shared", "approval", "telegram">>, "", InputText, "approval",
        <<>>, EnabledAbsent, ""),
   SimilarityStep(""), SimilarityStep("stop"), SimilarityStep("continue")}

Task(action, output) == [action |-> action, output |-> output]

Phase(name, condition, tasks) ==
  [name |-> name, condition |-> condition, tasks |-> tasks, depends_on |-> {}]

PhaseDefs ==
  {Phase("collect", <<>>, <<Task("queue_pop", "item"), Task("channel.post", "")>>),
   Phase("report", <<ItemRef>>, <<Task("telegram_send", "")>>)}

PipelineAction(action, condition) == [action |-> action, condition |-> condition]

NoHandlers == [present |-> FALSE, actions |-> <<>>]
Handlers(actions) == [present |-> TRUE, actions |-> actions]

NoConditions == [present |-> FALSE]

TimeOfDay(hour, minute) == [hour |-> hour, minute |-> minute]

NoTimeRange == [present |-> FALSE]
TimeRange(start, end) == [present |-> TRUE, start |-> start, end |-> end]

NoTimingCheck == [use_rules |-> FALSE, confidence_threshold |-> Undefined]
TimingCheck(threshold) == [use_rules |-> TRUE, confidence_threshold |-> threshold]

Conditions(time_range, timing_check) ==
  [present |-> TRUE, time_range |-> time_range, timing_check |-> timing_check]

StepsPipeline(steps, conditions, on_complete, on_error) ==
  [mode |-> "steps", steps |-> steps, phases |-> <<>>, conditions |-> conditions,
   on_complete |-> on_complete, on_error |-> on_error]

PhasesPipeline(phases, conditions, on_complete, on_error) ==
  [mode |-> "phases", steps |-> <<>>, phases |-> phases, conditions |-> conditions,
   on_complete |-> on_complete, on_error |-> on_error]

SeqsUpTo(S, n) == UNION {[1..k -> S] : k \in 1..n}

RunOptions(force, dryRun) == [force |-> force, dryRun |-> dryRun]

----------------------------------------------------------------------------
(* Pipeline runner: runPipeline *)

PipelineResult(success, executed, errs, error, failedStep) ==
  [success |-> success, stepsExecuted |-> executed, errors |-> errs,
   error |-> error, failedStep |-> failedStep]

(* a mutant of checkConditions: the timing check rejects only above the threshold *)
checkConditionsAbove(conditions) ==
  LET currentTime == now.hour * 100 + now.minute
      startTime == conditions.time_range.start.hour * 100 + conditions.time_range.start.minute
      endTime == conditions.time_range.end.hour * 100 + conditions.time_range.end.minute
      timingResult == checkTimingRules(FALSE)
      threshold == IF conditions.timing_check.confidence_threshold = Undefined THEN 50
                   ELSE conditions.timing_check.confidence_threshold
  IN IF conditions.time_range.present /\ (currentTime < startTime \/ currentTime > endTime)
     THEN [passed |-> FALSE, reason |-> "Outside time range"]
     ELSE IF conditions.timing_check.use_rules /\ ~timingResult.isOptimal
             /\ timingResult.confidence > threshold
          THEN [passed |-> FALSE, reason |-> timingResult.reason]
          ELSE [passed |-> TRUE, reason |-> ""]

checkConditions(conditions) ==
  LET currentTime == now.hour * 100 + now.minute
      startTime == conditions.time_range.start.hour * 100 + conditions.time_range.start.minute
      endTime == conditions.time_range.end.hour * 100 + conditions.time_range.end.minute
      timingResult == checkTimingRules(FALSE)
      threshold == IF conditions.timing_check.confidence_threshold = Undefined THEN 50
                   ELSE conditions.timing_check.confidence_threshold
  IN IF conditions.time_range.present /\ (currentTime < startTime \/ currentTime > endTime)
     THEN [passed |-> FALSE, reason |-> "Outside time range"]
     ELSE IF conditions.timing_check.use_rules /\ ~timingResult.isOptimal
             /\ timingResult.confidence >= threshold
          THEN [passed |-> FALSE, reason |-> timingResult.reason]
          ELSE [passed |-> TRUE, reason |-> ""]

(* the steps loop throws on a failure that on_fail does not let continue *)
AbortsOnStopOnly(step, stepResult) ==
  ~stepResult.success /\ ~stepResult.skipped /\ step.on_fail = "stop"

Aborts(step, stepResult) ==
  ~stepResult.success /\ ~stepResult.skipped /\ step.on_fail # "continue"

(* the errors list after a step that did not abort the run *)
RecordedErrorsNone(step, stepResult) == errors

RecordedErrors(step, stepResult) ==
  IF ~stepResult.success /\ ~stepResult.skipped
  THEN Append(errors, <<"Step", step.name, stepResult.error>>)
  ELSE errors

Put(results, name, value) ==
  [n \in DOMAIN results \cup {name} |-> IF n = name THEN value ELSE results[n]]

(* the calls of the notifier one step result stands for, nested steps included *)
RECURSIVE Calls(_, _)
Calls(stepResult, effect) ==
  (IF stepResult.effect = effect THEN 1 ELSE 0)
  + (LET perPass == [i \in 1..Len(stepResult.passes) |->
                       LET nested == stepResult.passes[i].results
                           RECURSIVE Sum(_)
                           Sum(j) == IF j = 0 THEN 0
                                     ELSE Calls(nested[j], effect) + Sum(j - 1)
                       IN Sum(Len(nested))]
         RECURSIVE Total(_)
         Total(i) == IF i = 0 THEN 0 ELSE perPass[i] + Total(i - 1)
     IN Total(Len(perPass)))

Notified(stepResult) ==
  [notify |-> notifier.notify + Calls(stepResult, "notify"),
   approval |-> notifier.approval + Calls(stepResult, "approval")]

(* executeAction: TRUE iff the handler reaches the notifier *)
executeAction(action, results) ==
  /\ action.condition # <<>> => evaluateCondition(action.condition, results)
  /\ action.action = "notify"

(* number of notifications a handler list sends *)
HandlerNotifications(handlers, results) ==
  Cardinality({i \in 1..Len(handlers.actions) : executeAction(handlers.actions[i], results)})

(* load the definition, build the context, check the conditions *)
StartRun(p, opts) ==
  /\ pipeline' = p
  /\ options' = opts
  /\ IF p = NoPipeline
     THEN /\ result' = PipelineResult(FALSE, 0, <<<<"Pipeline not found">>>>, "", "")
          /\ pc' = "done"
     ELSE IF ~opts.force /\ p.conditions.present /\ ~checkConditions(p.conditions).passed
          THEN /\ result' = PipelineResult(FALSE, 0,
                                           <<<<checkConditions(p.conditions).reason>>>>, "", "")
               /\ pc' = "done"
          ELSE /\ result' = result
               /\ pc' = p.mode
  /\ idx' = 1
  /\ taskIdx' = 1
  /\ UNCHANGED <<stepsExecuted, errors, phaseErrors, context, stepLog, notifier,
                 handlerRuns, caught>>
  /\ UNCHANGED <<storageVars, configVars, now, callVars, cmdVars>>

(* one pass of the steps loop *)
executeNextStep ==
  /\ pc = "steps"
  /\ LET step == pipeline.steps[idx]
     IN \E answer \in Answers(step) :
          \E stepResult \in {executeStep(step, NoVariables, context, options, answer)} :
             /\ context' = IF step.output # ""
                           THEN Put(context, step.output, stepResult.output)
                           ELSE context
             /\ stepsExecuted' = stepsExecuted + 1
             /\ stepLog' = Append(stepLog, [action |-> step.action, output |-> step.output,
                                                 result |-> stepResult, answer |-> answer,
                                                 results |-> context])
             /\ notifier' = Notified(stepResult)
             /\ IF Aborts(step, stepResult)
                THEN /\ caught' = IF stepResult.error # "" THEN stepResult.error
                                  ELSE "Step failed"
                     /\ pc' = "catch"
                     /\ UNCHANGED <<errors, idx>>
                ELSE /\ errors' = RecordedErrors(step, stepResult)
                     /\ idx' = idx + 1
                     /\ pc' = IF idx = Len(pipeline.steps) THEN "complete" ELSE "steps"
                     /\ UNCHANGED caught
  /\ UNCHANGED <<pipeline, options, taskIdx, phaseErrors, handlerRuns, result>>
  /\ UNCHANGED <<storageVars, configVars, now, callVars, cmdVars>>

(* a task of a phase as the step executePhase builds from it *)
TaskStep(task) ==
  Step(task.action, task.action, <<>>, "", <<>>, task.output, <<>>, EnabledAbsent, "")

(* a mutant of TaskErrors: a failed task adds no error *)
TaskErrorsNone(stepResult) == phaseErrors

(* the errors of the phase after a task *)
TaskErrors(stepResult) ==
  IF ~stepResult.success /\ ~stepResult.skipped
  THEN Append(phaseErrors, <<IF stepResult.error # "" THEN stepResult.error
                             ELSE "Task failed">>)
  ELSE phaseErrors

(* one pass of executePhase's task loop; the phase condition is evaluated  *)
(* before the first task, the phase result is folded into the run after    *)
(* the last one                                                            *)
executeNextTask ==
  /\ pc = "phases"
  /\ LET phase == pipeline.phases[idx]
         lastPhase == idx = Len(pipeline.phases)
     IN IF taskIdx = 1 /\ phase.condition # <<>>
           /\ ~evaluateCondition(phase.condition, context)
        THEN /\ idx' = idx + 1
             /\ pc' = IF lastPhase THEN "complete" ELSE "phases"
             /\ UNCHANGED <<taskIdx, stepsExecuted, errors, phaseErrors, stepLog, notifier>>
        ELSE LET step == TaskStep(phase.tasks[taskIdx])
             IN \E answer \in Answers(step) :
                \E stepResult \in {executeStep(step, NoVariables, context, options, answer)} :
                  LET errs == TaskErrors(stepResult)
                  IN /\ stepLog' = Append(stepLog, [action |-> step.action, output |-> step.output,
                                                 result |-> stepResult, answer |-> answer,
                                                 results |-> context])
                     /\ notifier' = Notified(stepResult)
                     /\ IF taskIdx = Len(phase.tasks)
                        THEN /\ stepsExecuted' = stepsExecuted + taskIdx
                             /\ errors' = errors \o errs
                             /\ phaseErrors' = <<>>
                             /\ taskIdx' = 1
                             /\ idx' = idx + 1
                             /\ pc' = IF lastPhase THEN "complete" ELSE "phases"
                        ELSE /\ phaseErrors' = errs
                             /\ taskIdx' = taskIdx + 1
                             /\ UNCHANGED <<stepsExecuted, errors, idx, pc>>
  /\ UNCHANGED <<pipeline, options, context, handlerRuns, caught, result>>
  /\ UNCHANGED <<storageVars, configVars, now, callVars, cmdVars>>

(* the end of the try block: on_complete handlers, then the result *)
runOnComplete ==
  /\ pc = "complete"
  /\ notifier' = [notifier EXCEPT !.notify =
                    @ + HandlerNotifications(pipeline.on_complete, context)]
  /\ handlerRuns' = [handlerRuns EXCEPT !.on_complete =
                       @ + (IF pipeline.on_complete.present THEN 1 ELSE 0)]
  /\ result' = PipelineResult(errors = <<>>, stepsExecuted, errors, "", "")
  /\ pc' = "done"
  /\ UNCHANGED <<pipeline, options, idx, taskIdx, stepsExecuted, errors, phaseErrors,
                 context, stepLog, caught>>
  /\ UNCHANGED <<storageVars, configVars, now, callVars, cmdVars>>

(* the catch block: on_error handlers, then the failed result *)
runCatch ==
  /\ pc = "catch"
  /\ errors' = Append(errors, <<caught>>)
  /\ context' = IF pipeline.on_error.present
                THEN Put(context, "error", StringValue(<<"e">>))
                ELSE context
  /\ notifier' = [notifier EXCEPT !.notify =
                    @ + HandlerNotifications(pipeline.on_error, context')]
  /\ handlerRuns' = [handlerRuns EXCEPT !.on_error =
                       @ + (IF pipeline.on_error.present THEN 1 ELSE 0)]
  /\ result' = PipelineResult(FALSE, stepsExecuted, errors', caught, "unknown")
  /\ pc' = "done"
  /\ UNCHANGED <<pipeline, options, idx, taskIdx, stepsExecuted, phaseErrors,
                 stepLog, caught>>
  /\ UNCHANGED <<storageVars, configVars, now, callVars, cmdVars>>

----------------------------------------------------------------------------
(* Specification SpecRun: one run of a drawn pipeline, from the call of    *)
(* runPipeline to its return.  The platform is at its daily post ceiling   *)
(* or below it, the queue holds one pending item or none, and the clock    *)
(* stands at 09:00, outside the window of the gated pipelines.             *)

QueueItem ==
  ObjectValue([id |-> NumberValue(1), content |-> StringValue(<<"a">>),
               status |-> StringValue(<<"b">>)])

NotifyHandlers == Handlers(<<PipelineAction("notify", <<>>)>>)

ClosedWindow == Conditions(TimeRange(TimeOfDay(10, 0), TimeOfDay(11, 0)), NoTimingCheck)

(* the gate and the option that overrides it *)
Gates == {<<NoConditions, FALSE>>, <<ClosedWindow, FALSE>>}

HandlerLists == {NoHandlers, NotifyHandlers}

InitRun ==
  /\ postsToday \in [Platforms -> {0, MaxCount}]
  /\ lastPostAge = [p \in Platforms |-> NoPost]
  /\ activity = [a \in {"post", "like", "repost"} |-> 0]
  /\ queue \in {<<>>, <<QueueItem>>}
  /\ bounds = BoundsDoc(MaxCount, 2, {}, 2, 1)
  /\ rules = TimingDoc(95, {}, {}, {})
  /\ now = [hour |-> 9, minute |-> 0, day |-> "Monday"]
  /\ IdleCalls
  /\ IdleCommands
  /\ IdleRun

runPipeline ==
  /\ pc = "idle"
  /\ \E gate \in Gates, handlers \in HandlerLists, dryRun \in BOOLEAN :
       \/ StartRun(NoPipeline, RunOptions(gate[2], dryRun))
       \/ \E steps \in SeqsUpTo(StepDefs, MaxSteps) :
            StartRun(StepsPipeline(steps, gate[1], handlers, handlers),
                     RunOptions(gate[2], dryRun))
       \/ \E phases \in SeqsUpTo(PhaseDefs, MaxPhases) :
            StartRun(PhasesPipeline(phases, gate[1], handlers, handlers),
                     RunOptions(gate[2], dryRun))

NextRun == runPipeline \/ executeNextStep \/ executeNextTask \/ runOnComplete \/ runCatch

SpecRun == InitRun /\ [][NextRun]_vars

----------------------------------------------------------------------------
(* Properties of a run (SpecRun) *)

RunOfLoadedPipeline == pc # "idle" /\ pipeline # NoPipeline

StepsRun == RunOfLoadedPipeline /\ pipeline.mode = "steps"

Returned == pc = "done"

(* the i-th executed step failed: success=false and not skipped *)
FailedAt(i) == ~stepLog[i].result.success /\ ~stepLog[i].result.skipped

Silent == [notify |-> 0, approval |-> 0]

\* C4: in a run without dryRun a channel.post step returns success only if
\* the rule engine's pre-checks for a post on the platform allow it; at the
\* daily post ceiling no channel.post step of the run succeeds.
C4_PublishGated ==
  (pc # "idle" /\ ~options.dryRun) =>
    \A i \in 1..Len(stepLog) :
      (stepLog[i].action = "channel.post" /\ stepLog[i].result.success
         /\ ~stepLog[i].result.skipped)
        => /\ runPreChecks("post", "x", <<"a">>).allowed
           /\ postsToday["x"] # bounds.sns.posting.max_per_day

\* C5: in a steps pipeline, once a step has failed with on_fail absent or
\* stop, no later step is executed, stepsExecuted counts the steps up to and
\* including the failing one, and the run returns success=false with that
\* step's error.
C5_StopAborts ==
  StepsRun =>
    \A i \in 1..Len(stepLog) :
      (FailedAt(i) /\ pipeline.steps[i].on_fail \in {"", "stop"}) =>
        /\ Len(stepLog) = i
        /\ stepsExecuted = i
        /\ pc \in {"catch", "done"}
        /\ Returned => /\ result.success = FALSE
                       /\ result.error = stepLog[i].result.error
                       /\ <<stepLog[i].result.error>> = result.errors[Len(result.errors)]
                       /\ result.stepsExecuted = i

C5_Witness ==
  /\ StepsRun /\ Returned
  /\ Len(pipeline.steps) = 3 /\ Len(stepLog) = 2
  /\ FailedAt(2) /\ pipeline.steps[2].on_fail = ""
  /\ result.success = FALSE /\ result.stepsExecuted = 2

\* C6: a run of a loaded pipeline that returns success=false has run the
\* on_error handler list exactly once, and a run that returns success=true
\* has not run it.
C6_OnErrorOncePerFailedRun ==
  (RunOfLoadedPipeline /\ Returned /\ pipeline.on_error.present) =>
    handlerRuns.on_error = (IF result.success THEN 0 ELSE 1)

\* C7: on_complete handlers run only in runs that return success=true, and
\* on_complete and on_error are never both run in one run.
C7_OnCompleteOnlyOnSuccess ==
  /\ (Returned /\ handlerRuns.on_complete > 0) => result.success
  /\ ~(handlerRuns.on_complete > 0 /\ handlerRuns.on_error > 0)

\* C9: in a run with dryRun=true the notifier receives no notification and
\* no approval request, and storage is left as it was.
C9_DryRunSilent ==
  (pc # "idle" /\ options.dryRun) =>
    /\ notifier = Silent
    /\ activity = [a \in {"post", "like", "repost"} |-> 0]
    /\ lastPostAge = [p \in Platforms |-> NoPost]

(* a step after the i-th aborted the run: it failed without on_fail=continue *)
C10_AbortedAfter(i) ==
  \E k \in (i + 1)..Len(stepLog) : FailedAt(k) /\ pipeline.steps[k].on_fail # "continue"

C10_Recorded(i) ==
  \E e \in 1..Len(errors) :
    errors[e] = <<"Step", pipeline.steps[i].name, stepLog[i].result.error>>

\* C10 (as stated): when a step with on_fail=continue fails, the error is
\* appended to the errors list, every later step is executed, the result has
\* success=false and stepsExecuted includes the failing step.
C10_ContinueRunsEveryLaterStep ==
  StepsRun =>
    \A i \in 1..Len(stepLog) :
      (FailedAt(i) /\ pipeline.steps[i].on_fail = "continue") =>
        /\ C10_Recorded(i)
        /\ Returned => /\ Len(stepLog) = Len(pipeline.steps)
                       /\ result.success = FALSE
                       /\ result.stepsExecuted >= i

\* C10 (amended): when a step with on_fail=continue fails, the error is
\* appended to the errors list, the result has success=false, stepsExecuted
\* includes the failing step, and every later step is executed unless a later
\* step itself fails without on_fail=continue, which aborts the run there.
C10_ContinueRunsLaterSteps ==
  StepsRun =>
    \A i \in 1..Len(stepLog) :
      (FailedAt(i) /\ pipeline.steps[i].on_fail = "continue") =>
        /\ C10_Recorded(i)
        /\ pc \in {"steps", "complete"} => stepsExecuted >= i
        /\ Returned => /\ Len(stepLog) = Len(pipeline.steps) \/ C10_AbortedAfter(i)
                       /\ result.success = FALSE
                       /\ result.stepsExecuted = Len(stepLog)
                       /\ result.stepsExecuted >= i

C10_Witness ==
  /\ StepsRun /\ Returned
  /\ Len(pipeline.steps) = 3 /\ Len(stepLog) = 3
  /\ FailedAt(1) /\ pipeline.steps[1].on_fail = "continue"
  /\ stepLog[3].result.success
  /\ result.success = FALSE /\ result.stepsExecuted = 3

----------------------------------------------------------------------------
(* Specification SpecGate: runs of a one-step pipeline under drawn         *)
(* conditions, clock readings and learned timing rules.                    *)

GateHours == {8, 9, 10}
GateMinutes == {0, 30}
GateConfidences == {30, 60, 95}
GateThresholds == {Undefined, 60, 95}

TimeRanges ==
  {NoTimeRange,
   TimeRange(TimeOfDay(9, 0), TimeOfDay(9, 30)),
   TimeRange(TimeOfDay(8, 30), TimeOfDay(10, 0))}

TimingChecks == {NoTimingCheck} \cup {TimingCheck(t) : t \in GateThresholds}

InitGate ==
  /\ postsToday = [p \in Platforms |-> 0]
  /\ lastPostAge = [p \in Platforms |-> NoPost]
  /\ activity = [a \in {"post", "like", "repost"} |-> 0]
  /\ queue = <<>>
  /\ bounds = BoundsDoc(MaxCount, 2, {}, 2, 1)
  /\ \E c \in GateConfidences, best \in {{}, {10}}, avoid \in {{}, {9}} :
       rules = TimingDoc(c, best, avoid, {})
  /\ \E h \in GateHours, m \in GateMinutes :
       now = [hour |-> h, minute |-> m, day |-> "Monday"]
  /\ IdleCalls
  /\ IdleCommands
  /\ IdleRun

runGatedPipeline ==
  /\ pc = "idle"
  /\ \E conditions \in {NoConditions}
                         \cup {Conditions(r, t) : r \in TimeRanges, t \in TimingChecks},
        force \in BOOLEAN :
       StartRun(StepsPipeline(<<ActionStep("send", "telegram_send", InputText, "")>>,
                              conditions, NoHandlers, NoHandlers),
                RunOptions(force, FALSE))

NextGate == runGatedPipeline \/ executeNextStep \/ runOnComplete

SpecGate == InitGate /\ [][NextGate]_vars

(* clock time a is earlier than clock time b *)
C8_Earlier(a, b) == a.hour < b.hour \/ (a.hour = b.hour /\ a.minute < b.minute)

C8_OutsideWindow ==
  /\ pipeline.conditions.time_range.present
  /\ \/ C8_Earlier(now, pipeline.conditions.time_range.start)
     \/ C8_Earlier(pipeline.conditions.time_range.end, now)

C8_Threshold ==
  IF pipeline.conditions.timing_check.confidence_threshold = Undefined THEN 50
  ELSE pipeline.conditions.timing_check.confidence_threshold

C8_TimingNotOptimal ==
  /\ pipeline.conditions.timing_check.use_rules
  /\ ~checkTimingRules(FALSE).isOptimal

C8_TimingBlocks ==
  C8_TimingNotOptimal /\ checkTimingRules(FALSE).confidence >= C8_Threshold

(* the run was rejected before any step handler was invoked *)
C8_Rejected ==
  /\ Returned /\ stepLog = <<>> /\ notifier = Silent
  /\ result.success = FALSE /\ result.stepsExecuted = 0

\* C8: unless force is set, a run is rejected before any step handler is
\* invoked (success=false, stepsExecuted=0) exactly when the clock lies
\* outside the pipeline's time_range or the timing check is not optimal with
\* a confidence at or above the pipeline's threshold; a non-optimal timing
\* result below the threshold does not reject, and force never rejects.
C8_PreconditionGate ==
  RunOfLoadedPipeline =>
    /\ C8_Rejected <=> /\ ~options.force
                       /\ pipeline.conditions.present
                       /\ C8_OutsideWindow \/ C8_TimingBlocks
    /\ ~C8_Rejected => pc \in {"steps", "complete"} \/ Len(stepLog) = 1
    /\ options.force => ~C8_Rejected
    /\ (pipeline.conditions.present /\ ~C8_OutsideWindow /\ C8_TimingNotOptimal
          /\ checkTimingRules(FALSE).confidence < C8_Threshold) => ~C8_Rejected

C8_Witness ==
  /\ RunOfLoadedPipeline /\ C8_Rejected
  /\ pipeline.conditions.present /\ ~C8_OutsideWindow
  /\ pipeline.conditions.time_range.present
  /\ C8_TimingNotOptimal
  /\ checkTimingRules(FALSE).confidence = C8_Threshold

----------------------------------------------------------------------------
(* Specification SpecFlow: runs of steps pipelines that pop the queue,     *)
(* validate, publish and notify, with on_fail=skip and conditions that     *)
(* read the results of earlier steps.                                      *)

ItemContentRef == <<RefToken(<<"item", "content">>, <<"$", "{", "i", ".", "c", "}">>)>>

NotSimilarRef ==
  RefToken(<<"check", "isSimilar">>, <<"$", "{", "c", ".", "s", "}">>)

FlowStepDefs ==
  {ActionStep("pop", "queue_pop", <<>>, "item"),
   Step("pop", "queue_pop", <<>>, "", <<>>, "item", <<>>, EnabledAbsent, "skip"),
   ActionStep("post", "channel.post", ItemContentRef, ""),
   SimilarityStep("skip"),
   Step("send", "telegram_send", <<>>, "", InputText, "", <<NotSimilarRef>>, EnabledAbsent, ""),
   Step("send", "telegram_send", <<>>, "", InputText, "", <<>>,
        EnabledString(<<NotSimilarRef>>), "")}

InitFlow ==
  /\ postsToday = [p \in Platforms |-> 0]
  /\ lastPostAge = [p \in Platforms |-> NoPost]
  /\ activity = [a \in {"post", "like", "repost"} |-> 0]
  /\ queue \in {<<>>, <<QueueItem>>}
  /\ bounds = BoundsDoc(MaxCount, 2, {}, 2, 1)
  /\ rules = TimingDoc(95, {}, {}, {})
  /\ now = [hour |-> 9, minute |-> 0, day |-> "Monday"]
  /\ IdleCalls
  /\ IdleCommands
  /\ IdleRun

runFlowPipeline ==
  /\ pc = "idle"
  /\ \E steps \in SeqsUpTo(FlowStepDefs, MaxSteps), dryRun \in BOOLEAN :
       StartRun(StepsPipeline(steps, NoConditions, NoHandlers, NoHandlers),
                RunOptions(FALSE, dryRun))

NextFlow == runFlowPipeline \/ executeNextStep \/ runOnComplete \/ runCatch

SpecFlow == InitFlow /\ [][NextFlow]_vars

\* C11: a step whose on_fail is skip never ends as a failure: whether its
\* handler throws or returns success=false the step result is a skip, the
\* run is not aborted by it and no error is recorded for it.
C11_SkipConvertsFailure ==
  StepsRun =>
    \A i \in 1..Len(stepLog) :
      pipeline.steps[i].on_fail = "skip" =>
        /\ stepLog[i].result.success
        /\ ~(pc \in {"catch", "done"} /\ Len(stepLog) = i /\ caught # "")
        /\ \A e \in 1..Len(errors) : errors[e][1] # stepLog[i].result.error

\* C12: when queue_pop finds no pending item the step is skipped and no
\* channel.post is attempted in the run; the pipeline [queue_pop, channel.post]
\* run with dryRun on an empty queue returns success=true, stepsExecuted=1.
C12_EmptyQueueNoPost ==
  (StepsRun /\ queue = <<>>) =>
    \A i \in 1..Len(stepLog) :
      (stepLog[i].action = "queue_pop" /\ stepLog[i].result.skipReason = "Queue is empty") =>
        /\ stepLog[i].result.success /\ stepLog[i].result.skipped
        /\ \A j \in (i + 1)..Len(stepLog) : stepLog[j].action # "channel.post"
        /\ (Returned /\ options.dryRun /\ i = 1 /\ Len(pipeline.steps) = 2
              /\ pipeline.steps[2].action = "channel.post")
             => result.success /\ result.stepsExecuted = 1

(* the step about to run carries a condition (or a string-valued enabled)  *)
(* that resolves against the context to the literal false                  *)
C16_FalseLiteral == <<"f", "a", "l", "s", "e">>

C16_ResolvesFalse ==
  /\ pc = "steps"
  /\ LET step == pipeline.steps[idx]
     IN \/ /\ step.condition # <<>>
           /\ withContext(step.condition, context) = C16_FalseLiteral
        \/ /\ step.enabled.type = "string"
           /\ withContext(step.enabled.v, context) = C16_FalseLiteral

\* C16: a step whose condition (or string-valued enabled) resolves against
\* the context to the literal false is skipped and its handler is not invoked.
C16_FalseConditionSkips ==
  [][C16_ResolvesFalse =>
       /\ stepLog'[Len(stepLog')].result.skipped
       /\ notifier' = notifier]_vars

----------------------------------------------------------------------------
(* Specification SpecTiming: calls of checkTimingRules against drawn       *)
(* learned timing rules, confidence floors and clock readings.             *)

TimingConfidences == {30, 50, 60, 95}
MinToApply == {50, 70}
ClockHours == {9, 10}
ClockDays == {"Monday", "Sunday"}

InitTiming ==
  /\ postsToday = [p \in Platforms |-> 0]
  /\ lastPostAge = [p \in Platforms |-> NoPost]
  /\ activity = [a \in {"post", "like", "repost"} |-> 0]
  /\ queue = <<>>
  /\ \E floor \in MinToApply :
       bounds = [BoundsDoc(MaxCount, 2, {}, 2, 1)
                   EXCEPT !.evolution.confidence.min_to_apply = floor]
  /\ \E c \in TimingConfidences, best \in {{}, {10}}, avoidHours \in {{}, {9}},
        avoidDays \in {{}, {"Sunday"}} :
       rules = TimingDoc(c, best, avoidHours, avoidDays)
  /\ \E h \in ClockHours, d \in ClockDays : now = [hour |-> h, minute |-> 0, day |-> d]
  /\ IdleCalls
  /\ IdleCommands
  /\ IdleRun

TimingCheckCall ==
  \E forceCheck \in BOOLEAN :
    /\ call' = [fn |-> "checkTimingRules", forceCheck |-> forceCheck]
    /\ preResult' = checkTimingRules(forceCheck)
    /\ UNCHANGED <<storageVars, configVars, now, cmdVars, runVars>>

NextTiming == TimingCheckCall

SpecTiming == InitTiming /\ [][NextTiming]_vars

C14_BelowFloor ==
  /\ call # NoCall
  /\ ~call.forceCheck
  /\ rules.timing.confidence < bounds.evolution.confidence.min_to_apply

\* C14: for every hour, weekday and content of best_hours / avoid_hours /
\* avoid_days, a timing rule whose confidence is below min_to_apply, checked
\* with forceCheck false, gives isOptimal = true.
C14_FailOpenTiming == C14_BelowFloor => preResult.isOptimal

C14_Witness ==
  /\ C14_BelowFloor /\ preResult.isOptimal
  /\ now.hour \in rules.timing.avoid_hours
  /\ now.day \in rules.timing.avoid_days
  /\ rules.timing.best_hours # {} /\ now.hour \notin rules.timing.best_hours

----------------------------------------------------------------------------
(* Specification SpecLimits: calls of checkDailyLimits against drawn       *)
(* ceilings and today's counts.                                            *)

LimitActionTypes == {"post", "like", "repost", "follow", "tweet"}

InitLimits ==
  /\ postsToday \in [Platforms -> 0..MaxCount]
  /\ lastPostAge = [p \in Platforms |-> NoPost]
  /\ activity \in [{"like", "repost"} -> 0..MaxCount]
  /\ queue = <<>>
  /\ \E maxPerDay \in {Undefined} \cup 0..MaxCount, maxLikes \in {Undefined} \cup 0..MaxCount :
       bounds = BoundsDoc(maxPerDay, 2, {}, maxLikes, 1)
  /\ rules = TimingDoc(95, {}, {}, {})
  /\ now = [hour |-> 9, minute |-> 0, day |-> "Monday"]
  /\ IdleCalls
  /\ IdleCommands
  /\ IdleRun

DailyLimitCall ==
  \E actionType \in LimitActionTypes, platform \in Platforms :
    /\ call' = [fn |-> "checkDailyLimits", actionType |-> actionType,
                platform |-> platform]
    /\ preResult' = checkDailyLimits(actionType, platform)
    /\ UNCHANGED <<storageVars, configVars, now, cmdVars, runVars>>

NextLimits == DailyLimitCall

SpecLimits == InitLimits /\ [][NextLimits]_vars

(* today's count and the ceiling of the action type of the last call *)
C15_Count ==
  IF call.actionType = "post" THEN postsToday[call.platform]
  ELSE IF call.actionType \in DOMAIN activity THEN activity[call.actionType] ELSE 0

C15_Ceiling ==
  CASE call.actionType = "post" -> bounds.sns.posting.max_per_day
    [] call.actionType = "like" -> bounds.sns.engagement.max_likes_per_day
    [] call.actionType = "repost" -> bounds.sns.engagement.max_reposts_per_day
    [] OTHER -> Undefined

\* C15: for a known action type whose ceiling L is defined and today's
\* count c, checkDailyLimits returns allowed = (c + 1 <= L), limit = L and
\* remaining = max(0, L - c); allowed holds exactly when remaining >= 1.
C15_DailyLimitArithmetic ==
  (call # NoCall /\ C15_Ceiling # Undefined) =>
    /\ preResult.allowed = (C15_Count + 1 <= C15_Ceiling)
    /\ preResult.limit = C15_Ceiling
    /\ preResult.remaining = (IF C15_Ceiling - C15_Count > 0
                              THEN C15_Ceiling - C15_Count ELSE 0)
    /\ preResult.allowed = (preResult.remaining >= 1)

C15_Witness ==
  /\ call # NoCall /\ call.actionType = "post"
  /\ C15_Ceiling = MaxCount /\ C15_Count = MaxCount
  /\ preResult.allowed = FALSE /\ preResult.remaining = 0

----------------------------------------------------------------------------
(* The similarity check on drawn contents, corpora and thresholds          *)

Thresholds == {Undefined, 0, 1000}

(* corpora holding a drawn entry, alone or after another post *)
CorporaOf(entry) == {<<entry>>, <<<<"a">>, entry>>}

InitSimilarity ==
  /\ postsToday = [p \in Platforms |-> 0]
  /\ lastPostAge = [p \in Platforms |-> NoPost]
  /\ activity = [t \in {"like", "repost"} |-> 0]
  /\ queue = <<>>
  /\ bounds = BoundsDoc(2, 2, {}, 1, 1)
  /\ rules = TimingDoc(95, {}, {}, {})
  /\ now = [hour |-> 9, minute |-> 0, day |-> "Monday"]
  /\ \E content \in TextsUpTo(MaxLen), entry \in TextsUpTo(MaxLen), threshold \in Thresholds :
       \E comparePosts \in CorporaOf(entry) :
         call = [fn |-> "checkSimilarity", content |-> content,
                 comparePosts |-> comparePosts, threshold |-> threshold]
  /\ preResult = NoResult
  /\ IdleCommands
  /\ IdleRun

SimilarityCall ==
  /\ preResult = NoResult
  /\ preResult' = checkSimilarity(call.content, call.comparePosts, call.threshold)
  /\ UNCHANGED <<storageVars, configVars, now, call, cmdVars, runVars>>

NextSimilarity == SimilarityCall

SpecSimilarity == InitSimilarity /\ [][NextSimilarity]_vars

(* the corpus of the call holds an entry that preprocesses like the content *)
C20_SamePreprocessed ==
  \E i \in 1..Len(call.comparePosts) :
    preprocessText(call.comparePosts[i]) = preprocessText(call.content)

\* C20: for every content C and every corpus holding an entry D with
\* preprocess(C) = preprocess(D), C and D unrestricted, the similarity check
\* returns highestSimilarity = 1.0 and isSimilar = true for every threshold
\* up to 1.0.
C20_SamePreprocessedIsSimilar ==
  (preResult # NoResult /\ C20_SamePreprocessed) =>
    /\ preResult.highestSimilarity.num = preResult.highestSimilarity.den
    /\ preResult.isSimilar

----------------------------------------------------------------------------
(* Runs of pipelines that validate the queue item before posting it        *)

ValidateStepDefs ==
  {ActionStep("pop", "queue_pop", <<>>, "item"),
   SimilarityStep(""),
   SimilarityStep("continue"),
   ActionStep("post", "channel.post", ItemContentRef, "")}

InitValidate ==
  /\ postsToday = [p \in Platforms |-> 0]
  /\ lastPostAge = [p \in Platforms |-> NoPost]
  /\ activity = [a \in {"post", "like", "repost"} |-> 0]
  /\ queue \in {<<>>, <<QueueItem>>}
  /\ bounds = BoundsDoc(MaxCount, 2, {}, 2, 1)
  /\ rules = TimingDoc(95, {}, {}, {})
  /\ now = [hour |-> 9, minute |-> 0, day |-> "Monday"]
  /\ IdleCalls
  /\ IdleCommands
  /\ IdleRun

runValidatingPipeline ==
  /\ pc = "idle"
  /\ \E steps \in SeqsUpTo(ValidateStepDefs, MaxSteps), dryRun \in BOOLEAN :
       StartRun(StepsPipeline(steps, NoConditions, NoHandlers, NoHandlers),
                RunOptions(FALSE, dryRun))

NextValidate == runValidatingPipeline \/ executeNextStep \/ runOnComplete \/ runCatch

SpecValidate == InitValidate /\ [][NextValidate]_vars

(* what the validator `step` was told by the similarity check, from its log entry *)
C13_Found(step, entry) ==
  checkSimilarity(ServiceContent(resolveVariables(step, NoVariables, entry.results),
                                 NoVariables, entry.results),
                  entry.answer.rows, Undefined)

(* a similarity check that scored at or above its threshold *)
C13_Similar(found) == AtLeast(found.highestSimilarity, Score(found.threshold, 1000))

(* the validator at position i of the run told that its content is similar: *)
(* it failed with the percentage in its error                               *)
C13_FailedAt(i) ==
  LET step == pipeline.steps[i]
      found == C13_Found(step, stepLog[i])
  IN (/\ step.service = <<"shared", "validator", "similarity">>
      /\ stepLog[i].answer.kind = "ok"
      /\ C13_Similar(found)) =>
       /\ ~stepLog[i].result.success
       /\ ~stepLog[i].result.skipped
       /\ stepLog[i].result.error = "Similar content found"
       /\ stepLog[i].result.detail = PercentText(found.highestSimilarity)
       /\ step.on_fail = "" =>
            /\ Len(stepLog) = i
            /\ pc \in {"catch", "done"}
            /\ pc = "done" => ~result.success

\* C13: a similarity validator step whose check finds the content similar
\* (highest score >= threshold) returns a failure, never a success, whose
\* error message carries the matched percentage; with the default on_fail
\* the run aborts there, so no later step (no channel.post placed after the
\* validator) executes in that run, and the run returns a failure.
C13_SimilarContentFails ==
  StepsRun => \A i \in 1..Len(stepLog) : C13_FailedAt(i)

(* a finished run whose validator scored 94.1% before a channel.post *)
C13_Witness ==
  /\ StepsRun
  /\ pc = "done"
  /\ \E i \in 1..Len(stepLog) :
       /\ pipeline.steps[i].service = <<"shared", "validator", "similarity">>
       /\ pipeline.steps[i].on_fail = ""
       /\ i < Len(pipeline.steps)
       /\ pipeline.steps[i + 1].action = "channel.post"
       /\ stepLog[i].answer.rows = RecentPosts
       /\ stepLog[i].result.detail = <<"9", "4", ".", "1", "%">>

----------------------------------------------------------------------------
(* Runs of pipelines with a for_each step over rules.timing.best_hours     *)

LoopHours == 8..(8 + MaxCount)

HourRef == <<RefToken(<<"hour">>, <<"$", "{", "h", "}">>)>>

BestHoursPath == <<"rules", "timing", "best_hours">>

(* the nested steps: a message for the element, and a step with an output *)
NestedSteps ==
  <<ActionStep("send", "telegram_send", HourRef, ""),
    ActionStep("mark", "channel.post", <<>>, "marked")>>

LoopStepDefs ==
  {ActionStep("pop", "queue_pop", <<>>, "item"),
   ActionStep("pop", "queue_pop", <<>>, "hour")}
  \cup {ForEachStep("each", "hour", BestHoursPath, m, NestedSteps, "hours") :
          m \in {Undefined, 0, 2}}

InitLoop ==
  /\ postsToday = [p \in Platforms |-> 0]
  /\ lastPostAge = [p \in Platforms |-> NoPost]
  /\ activity = [a \in {"post", "like", "repost"} |-> 0]
  /\ queue \in {<<>>, <<QueueItem>>}
  /\ bounds = BoundsDoc(MaxCount, 2, {}, 2, 1)
  /\ \E best \in SUBSET LoopHours : rules = TimingDoc(95, best, {}, {})
  /\ now = [hour |-> 9, minute |-> 0, day |-> "Monday"]
  /\ IdleCalls
  /\ IdleCommands
  /\ IdleRun

runLoopPipeline ==
  /\ pc = "idle"
  /\ \E steps \in SeqsUpTo(LoopStepDefs, MaxSteps), dryRun \in BOOLEAN :
       StartRun(StepsPipeline(steps, NoConditions, NoHandlers, NoHandlers),
                RunOptions(FALSE, dryRun))

NextLoop == runLoopPipeline \/ executeNextStep \/ runOnComplete \/ runCatch

SpecLoop == InitLoop /\ [][NextLoop]_vars

(* the source sequence of the for_each steps of the run *)
C17_Source == Ascending(rules.timing.best_hours)

(* min(n, m), m defaulting to n *)
C17_Passes(step) ==
  IF step.max_iterations = Undefined THEN Len(C17_Source)
  ELSE Min(Len(C17_Source), step.max_iterations)

\* C17: a for_each step over a source of n elements with max_iterations = m
\* runs its nested steps for exactly min(n, m) elements (m defaults to n),
\* taken in source order from the first element, each pass seeing the loop
\* variable bound to its element: the message a nested step builds from
\* `${hour}` is the text of the element of its pass.
C17_ForEachPasses ==
  StepsRun =>
    \A i \in 1..Len(stepLog) :
      pipeline.steps[i].for_each.present =>
        LET passes == stepLog[i].result.passes
        IN /\ Len(passes) = C17_Passes(pipeline.steps[i])
           /\ \A k \in 1..Len(passes) :
                /\ passes[k].item = C17_Source[k]
                /\ passes[k].results[1].message = JSString(C17_Source[k])

----------------------------------------------------------------------------
(* Outputs of the executed units of a run (SpecRun)                        *)

\* C18: every executed unit (a top-level step or a task of a phase) that
\* declares an output and completes successfully leaves its output under
\* that name in the context results, where the units executed later read
\* it; and the context results hold no name that no executed unit declared
\* as its output, apart from `error`.
C18_OutputsReadable ==
  RunOfLoadedPipeline =>
    /\ \A i \in 1..Len(stepLog) :
         (/\ stepLog[i].result.success
          /\ ~stepLog[i].result.skipped
          /\ stepLog[i].output # "") => stepLog[i].output \in DOMAIN context
    /\ \A name \in DOMAIN context :
         name = "error" \/ \E i \in 1..Len(stepLog) : stepLog[i].output = name

----------------------------------------------------------------------------
(* Runs of `phases` pipelines whose phases name the phases they depend on  *)

PhaseAfter(name, depends_on, tasks) ==
  [Phase(name, <<>>, tasks) EXCEPT !.depends_on = depends_on]

DependentPhaseDefs ==
  {Phase("collect", <<>>, <<Task("queue_pop", "item")>>),
   Phase("audit", <<>>, <<Task("log", ""), Task("telegram_send", "")>>),
   PhaseAfter("publish", {"collect"}, <<Task("channel.post", "")>>),
   PhaseAfter("report", {"audit"}, <<Task("telegram_send", "")>>)}

(* lists of distinct phases in which every phase named in a depends_on appears *)
DependentPhaseLists ==
  {phases \in SeqsUpTo(DependentPhaseDefs, MaxPhases) :
     /\ \A i, j \in 1..Len(phases) : i # j => phases[i].name # phases[j].name
     /\ \A i \in 1..Len(phases) :
          \A d \in phases[i].depends_on : \E j \in 1..Len(phases) : phases[j].name = d}

InitPhases ==
  /\ postsToday = [p \in Platforms |-> 0]
  /\ lastPostAge = [p \in Platforms |-> NoPost]
  /\ activity = [a \in {"post", "like", "repost"} |-> 0]
  /\ queue \in {<<>>, <<QueueItem>>}
  /\ bounds = BoundsDoc(MaxCount, 2, {}, 2, 1)
  /\ rules = TimingDoc(95, {}, {}, {})
  /\ now = [hour |-> 9, minute |-> 0, day |-> "Monday"]
  /\ IdleCalls
  /\ IdleCommands
  /\ IdleRun

runPhasedPipeline ==
  /\ pc = "idle"
  /\ \E phases \in DependentPhaseLists, dryRun \in BOOLEAN,
        on_complete \in {NoHandlers, NotifyHandlers} :
       StartRun(PhasesPipeline(phases, NoConditions, on_complete, NoHandlers),
                RunOptions(FALSE, dryRun))

NextPhases == runPhasedPipeline \/ executeNextTask \/ runOnComplete

SpecPhases == InitPhases /\ [][NextPhases]_vars

(* phase p of the run has executed a task; phase q has executed all of its tasks *)
C19_Started(p) == p < idx \/ (p = idx /\ taskIdx > 1)

C19_Finished(q) == q < idx

\* C19: in a `phases` pipeline a phase that lists depends_on names starts
\* executing only after every named phase has finished executing, whatever
\* the order of the phases in the pipeline definition.
C19_DependsOnOrder ==
  (RunOfLoadedPipeline /\ pipeline.mode = "phases") =>
    \A p \in 1..Len(pipeline.phases) :
      C19_Started(p) =>
        \A q \in 1..Len(pipeline.phases) :
          pipeline.phases[q].name \in pipeline.phases[p].depends_on => C19_Finished(q)

----------------------------------------------------------------------------
(* shouldFollowBack on drawn engagement rules and accounts                 *)

FollowersClause == <<"f", "o", "l", "l", "o", "w", "e", "r", "s", " ", ">">>

Digits == {"0", "1", "2", "3", "4", "5", "6", "7", "8", "9"}

DigitValue(c) == CHOOSE d \in 0..9 : Digit(d) = c

(* parseInt of a run of digits; the empty run gives 0 *)
RECURSIVE parseInt(_)
parseInt(digits) ==
  IF digits = <<>> THEN 0
  ELSE 10 * parseInt(SubSeq(digits, 1, Len(digits) - 1)) + DigitValue(digits[Len(digits)])

(* the longest prefix of s made of digits *)
RECURSIVE DigitRun(_)
DigitRun(s) ==
  IF s # <<>> /\ Head(s) \in Digits THEN <<Head(s)>> \o DigitRun(Tail(s)) ELSE <<>>

(* filter.match(/followers > (\d+)/)?.[1] ?? '0': the digits of the first match *)
FollowersMatch(filter) ==
  LET pattern == FollowersClause \o <<" ">>
      starts == {i \in 1..Len(filter) :
                   /\ i + Len(pattern) <= Len(filter)
                   /\ SubSeq(filter, i, i + Len(pattern) - 1) = pattern
                   /\ filter[i + Len(pattern)] \in Digits}
  IN IF starts = {} THEN <<"0">>
     ELSE LET first == CHOOSE i \in starts : \A j \in starts : i <= j
          IN DigitRun(SubSeq(filter, first + Len(pattern), Len(filter)))

shouldFollowBack(handle, followers, isBot) ==
  LET rule == rules.engagement.auto_follow_back
  IN IF ~rule.enabled
     THEN [allowed |-> FALSE, reason |-> <<"Auto follow back is disabled">>,
           rule |-> "auto_follow_back.enabled"]
     ELSE IF isBot
          THEN [allowed |-> FALSE, reason |-> <<"Account appears to be a bot">>,
                rule |-> "not_bot"]
          ELSE IF includes(rule.filter, FollowersClause)
                  /\ followers < parseInt(FollowersMatch(rule.filter))
               THEN [allowed |-> FALSE,
                     reason |-> <<"Follower count below minimum", followers,
                                  parseInt(FollowersMatch(rule.filter))>>,
                     rule |-> "min_followers"]
               ELSE [allowed |-> TRUE, confidence |-> rule.confidence]

(* filters: "followers > N", the same before another clause, and no clause *)
FollowFilters ==
  {FollowersClause \o <<" ">> \o DecimalText(n) : n \in 0..MaxCount}
  \cup {FollowersClause \o <<" ">> \o DecimalText(n) \o <<" ", "&", " ", "a">> : n \in 0..MaxCount}
  \cup {<<"a">>}

InitFollow ==
  /\ postsToday = [p \in Platforms |-> 0]
  /\ lastPostAge = [p \in Platforms |-> NoPost]
  /\ activity = [t \in {"like", "repost"} |-> 0]
  /\ queue = <<>>
  /\ bounds = BoundsDoc(2, 2, {}, 1, 1)
  /\ \E enabled \in BOOLEAN, filter \in FollowFilters, c \in Confidences :
       rules = [timing |-> TimingDoc(95, {}, {}, {}).timing,
                engagement |-> [auto_follow_back |->
                  [enabled |-> enabled, filter |-> filter, confidence |-> c]]]
  /\ now = [hour |-> 9, minute |-> 0, day |-> "Monday"]
  /\ IdleCalls
  /\ IdleCommands
  /\ IdleRun

FollowBackCall ==
  \E followers \in 0..(MaxCount + 1), isBot \in BOOLEAN :
    /\ call' = [fn |-> "shouldFollowBack", handle |-> <<"a">>,
                followers |-> followers, isBot |-> isBot]
    /\ preResult' = shouldFollowBack(<<"a">>, followers, isBot)
    /\ UNCHANGED <<storageVars, configVars, now, cmdVars, runVars>>

NextFollow == FollowBackCall

SpecFollow == InitFollow /\ [][NextFollow]_vars

(* the N of the "followers > N" clause of the rule's filter *)
C24_Minimum ==
  parseInt(FollowersMatch(rules.engagement.auto_follow_back.filter))

\* C24: with auto follow-back enabled, a non-bot account and a filter
\* containing "followers > N", shouldFollowBack allows exactly when the
\* follower count is strictly greater than N; when follow-back is disabled
\* or the account is a bot it denies whatever the follower count.
C24_StrictlyMoreFollowers ==
  call # NoCall =>
    LET rule == rules.engagement.auto_follow_back
    IN /\ (~rule.enabled \/ call.isBot) => ~preResult.allowed
       /\ (rule.enabled /\ ~call.isBot /\ includes(rule.filter, FollowersClause)) =>
            (preResult.allowed <=> call.followers > C24_Minimum)

----------------------------------------------------------------------------
(* Daily limits on bounds documents with absent sections                   *)

EvolutionBounds == BoundsDoc(Undefined, 2, {}, Undefined, 1).evolution

(* bounds documents: complete, without `sns`, without a category, and with a
   category that lacks the ceiling's key *)
CeilingDocs ==
  {BoundsDoc(l, 2, {<<"a">>}, l, 1) : l \in {Undefined} \cup 0..MaxCount}
  \cup {[evolution |-> EvolutionBounds],
        [sns |-> [engagement |-> [max_likes_per_day |-> 1, max_reposts_per_day |-> 1],
                  forbidden_topics |-> {<<"a">>}],
         evolution |-> EvolutionBounds],
        [sns |-> [posting |-> [max_per_day |-> 1, min_interval_minutes |-> 2]],
         evolution |-> EvolutionBounds],
        [sns |-> [posting |-> [min_interval_minutes |-> 2],
                  engagement |-> [max_reposts_per_day |-> 1],
                  forbidden_topics |-> {}],
         evolution |-> EvolutionBounds]}

InitCeiling ==
  /\ postsToday \in [Platforms -> 0..MaxCount]
  /\ lastPostAge \in [Platforms -> {NoPost, 0}]
  /\ activity \in [{"like", "repost"} -> {0, MaxCount}]
  /\ queue = <<>>
  /\ bounds \in CeilingDocs
  /\ rules = TimingDoc(95, {}, {}, {})
  /\ now = [hour |-> 9, minute |-> 0, day |-> "Monday"]
  /\ IdleCalls
  /\ IdleCommands
  /\ IdleRun

PreCheckCall ==
  \E actionType \in LimitActionTypes, platform \in Platforms, content \in {<<>>, <<"a">>} :
    /\ call' = [fn |-> "runPreChecks", actionType |-> actionType,
                platform |-> platform, content |-> content]
    /\ preResult' = runPreChecks(actionType, platform, content)
    /\ UNCHANGED <<storageVars, configVars, now, cmdVars, runVars>>

NextCeiling == DailyLimitCall \/ PreCheckCall

SpecCeiling == InitCeiling /\ [][NextCeiling]_vars

(* the ceiling of the last call's action type is absent from the document *)
C30_CeilingMissing ==
  /\ call.actionType \in DOMAIN limitMap
  /\ LET mapping == limitMap[call.actionType]
     IN \/ "sns" \notin DOMAIN bounds
        \/ mapping.category \notin DOMAIN bounds.sns
        \/ mapping.key \notin DOMAIN bounds.sns[mapping.category]
        \/ bounds.sns[mapping.category][mapping.key] = Undefined

\* C30: a missing ceiling is no ceiling: for a known action type whose
\* ceiling is absent (no `sns` section, no category, or no max_*_per_day
\* key) checkDailyLimits allows with unbounded limit and remaining whatever
\* the count, and runPreChecks never denies on the daily limit; for an
\* unknown action type checkDailyLimits returns the fixed unbounded result
\* with current 0, whatever the counts in storage.
C30_MissingCeilingAllows ==
  call # NoCall =>
    /\ (call.fn = "checkDailyLimits" /\ C30_CeilingMissing) =>
         /\ preResult.allowed
         /\ preResult.limit = Infinity
         /\ preResult.remaining = Infinity
    /\ (call.fn = "runPreChecks" /\ C30_CeilingMissing /\ ~preResult.allowed) =>
         preResult.rule \in {"min_interval", "forbidden_topics"}
    /\ (call.fn = "checkDailyLimits" /\ call.actionType \notin DOMAIN limitMap) =>
         preResult = [allowed |-> TRUE, current |-> 0, limit |-> Infinity,
                      remaining |-> Infinity, limitType |-> "unknown"]

C30_Witness ==
  /\ call # NoCall
  /\ call.fn = "checkDailyLimits"
  /\ call.actionType = "post"
  /\ "sns" \notin DOMAIN bounds
  /\ postsToday[call.platform] = MaxCount
  /\ preResult.allowed
  /\ preResult.limit = Infinity

----------------------------------------------------------------------------
(* resolveVariable on templates of characters                              *)

(* path.split('.') *)
RECURSIVE SplitPath(_)
SplitPath(path) ==
  LET dots == {i \in 1..Len(path) : path[i] = "."}
  IN IF dots = {} THEN <<path>>
     ELSE LET first == CHOOSE i \in dots : \A j \in dots : i <= j
          IN <<SubSeq(path, 1, first - 1)>> \o SplitPath(SubSeq(path, first + 1, Len(path)))

(* current[part]: the documents drawn have keys of one character *)
Member(current, part) ==
  IF current.type = "object"
  THEN IF Len(part) = 1 /\ part[1] \in DOMAIN current.fields
       THEN current.fields[part[1]] ELSE UndefinedValue
  ELSE IF Len(part) = 1 /\ part[1] \in Digits /\ DigitValue(part[1]) < Len(current.items)
       THEN current.items[DigitValue(part[1]) + 1] ELSE UndefinedValue

RECURSIVE getNestedValue(_, _)
getNestedValue(current, parts) ==
  IF parts = <<>> THEN current
  ELSE IF current.type \in {"undefined", "null"} THEN UndefinedValue
  ELSE IF current.type \in {"object", "array"}
       THEN getNestedValue(Member(current, Head(parts)), Tail(parts))
       ELSE UndefinedValue

(* the index of the `}` closing a placeholder that opens at the head of the
   text, 0 when /\$\{([^}]+)\}/ does not match there *)
PlaceholderEnd(text) ==
  IF Len(text) >= 4 /\ text[1] = "$" /\ text[2] = "{"
  THEN LET closers == {j \in 3..Len(text) : text[j] = "}"}
       IN IF closers = {} THEN 0
          ELSE LET first == CHOOSE j \in closers : \A k \in closers : j <= k
               IN IF first >= 4 THEN first ELSE 0
  ELSE 0

(* a mutant of resolveTemplate: a placeholder without value is removed *)
RECURSIVE resolveTemplateBlank(_, _)
resolveTemplateBlank(template, root) ==
  IF template = <<>> THEN <<>>
  ELSE IF PlaceholderEnd(template) = 0
       THEN <<Head(template)>> \o resolveTemplateBlank(Tail(template), root)
       ELSE LET end == PlaceholderEnd(template)
                value == getNestedValue(root, SplitPath(SubSeq(template, 3, end - 1)))
            IN (IF value # UndefinedValue THEN JSString(value) ELSE <<>>)
               \o resolveTemplateBlank(SubSeq(template, end + 1, Len(template)), root)

(* template.replace(/\$\{([^}]+)\}/g, ...): matches are taken from left to
   right and the inserted text is not scanned again *)
RECURSIVE resolveTemplate(_, _)
resolveTemplate(template, root) ==
  IF template = <<>> THEN <<>>
  ELSE IF PlaceholderEnd(template) = 0
       THEN <<Head(template)>> \o resolveTemplate(Tail(template), root)
       ELSE LET end == PlaceholderEnd(template)
                value == getNestedValue(root, SplitPath(SubSeq(template, 3, end - 1)))
            IN (IF value # UndefinedValue THEN JSString(value)
                ELSE SubSeq(template, 1, end))
               \o resolveTemplate(SubSeq(template, end + 1, Len(template)), root)

TemplatePieces ==
  {<<"$", "{", "a", "}">>, <<"$", "{", "a", ".", "b", "}">>, <<"$", "{", "b", "}">>,
   <<"$", "{", "a", ".", "1", "}">>, <<"$", "{", "}">>, <<"$", "{">>, <<"}">>,
   <<"a">>, <<"$">>}

Templates == {<<>>} \cup {Concat(pieces) : pieces \in SeqsUpTo(TemplatePieces, MaxLen)}

ResolveContexts ==
  {ObjectValue(NoVariables),
   ObjectValue([a |-> NumberValue(1)]),
   ObjectValue([a |-> NullValue]),
   ObjectValue([a |-> UndefinedValue, b |-> BooleanValue(FALSE)]),
   ObjectValue([a |-> ObjectValue([b |-> StringValue(<<"B">>)])]),
   ObjectValue([a |-> ArrayValue(<<NumberValue(1), StringValue(<<>>)>>)]),
   ObjectValue([a |-> StringValue(<<"$", "{", "b", "}">>), b |-> NumberValue(2)])}

InitResolve ==
  /\ postsToday = [p \in Platforms |-> 0]
  /\ lastPostAge = [p \in Platforms |-> NoPost]
  /\ activity = [t \in {"like", "repost"} |-> 0]
  /\ queue = <<>>
  /\ bounds = BoundsDoc(2, 2, {}, 1, 1)
  /\ rules = TimingDoc(95, {}, {}, {})
  /\ now = [hour |-> 9, minute |-> 0, day |-> "Monday"]
  /\ \E template \in Templates, root \in ResolveContexts :
       call = [fn |-> "resolveVariable", template |-> template, context |-> root]
  /\ preResult = NoResult
  /\ IdleCommands
  /\ IdleRun

ResolveCall ==
  /\ preResult = NoResult
  /\ preResult' = [text |-> resolveTemplate(call.template, call.context)]
  /\ UNCHANGED <<storageVars, configVars, now, call, cmdVars, runVars>>

NextResolve == ResolveCall

SpecResolve == InitResolve /\ [][NextResolve]_vars

(* the text a placeholder with this path becomes *)
C22_Replacement(path) ==
  LET value == getNestedValue(call.context, SplitPath(path))
  IN IF value # UndefinedValue THEN JSString(value)
     ELSE <<"$", "{">> \o path \o <<"}">>

\* C22: resolveVariable replaces each `${path}` whose dotted path leads to a
\* defined value by String(value) and leaves the rest of the template as
\* written, a `${path}` whose path is not found included: a template without
\* `${` is returned unchanged, and for every way of reading the template as a
\* text without `${`, then a placeholder, then a remainder, the result is
\* that text, the placeholder's replacement, and the resolved remainder.
C22_ResolveReplacesDefined ==
  preResult # NoResult =>
    LET template == call.template
    IN /\ ~includes(template, <<"$", "{">>) => preResult.text = template
       /\ \A i \in 1..Len(template), j \in 1..Len(template) :
            (/\ i + 3 <= j
             /\ template[i] = "$" /\ template[i + 1] = "{" /\ template[j] = "}"
             /\ \A k \in (i + 2)..(j - 1) : template[k] # "}"
             /\ ~includes(SubSeq(template, 1, i - 1), <<"$", "{">>))
            => preResult.text =
                 SubSeq(template, 1, i - 1)
                 \o C22_Replacement(SubSeq(template, i + 2, j - 1))
                 \o resolveTemplate(SubSeq(template, j + 1, Len(template)), call.context)

C22_Witness ==
  /\ preResult # NoResult
  /\ call.template = <<"$", "{", "a", "}", "$", "{", "b", "}">>
  /\ call.context = ObjectValue([a |-> NumberValue(1)])
  /\ preResult.text = <<"1", "$", "{", "b", "}">>

----------------------------------------------------------------------------
(* add_hashtags applied to its own output                                  *)

(* the longest prefix of s made of \w characters *)
RECURSIVE WordRun(_)
WordRun(s) ==
  IF s # <<>> /\ Head(s) \in WordChars THEN <<Head(s)>> \o WordRun(Tail(s)) ELSE <<>>

(* content.match(/#\w+/g) || [], lowercased, as a set *)
existingSet(content) ==
  {toLowerCase(<<"#">> \o WordRun(SubSeq(content, i + 1, Len(content)))) :
     i \in {k \in 1..(Len(content) - 1) : content[k] = "#" /\ content[k + 1] \in WordChars}}

(* hashtags.filter(...) *)
RECURSIVE Filter(_, _)
Filter(hashtags, existing) ==
  IF hashtags = <<>> THEN <<>>
  ELSE (IF toLowerCase(Head(hashtags)) \in existing THEN <<>> ELSE <<Head(hashtags)>>)
       \o Filter(Tail(hashtags), existing)

(* newHashtags.join(' ') *)
RECURSIVE Join(_)
Join(tags) ==
  IF tags = <<>> THEN <<>>
  ELSE IF Len(tags) = 1 THEN Head(tags)
  ELSE Head(tags) \o <<" ">> \o Join(Tail(tags))

addHashtags(content, hashtags) ==
  LET newHashtags == Filter(hashtags, existingSet(content))
  IN IF newHashtags = <<>> THEN content
     ELSE content \o <<"\n", "\n">> \o Join(newHashtags)

(* tags as rules write them: with and without `#`, in both cases, and in a
   script outside \w *)
Hashtags == {<<"#", "a">>, <<"#", "B">>, <<"#", "b">>, <<"a">>, <<"#", "é">>}

HashtagContents == StringsUpTo(MaxLen) \cup {<<"#", "a">>, <<"#", "b", " ">>}

InitHashtags ==
  /\ postsToday = [p \in Platforms |-> 0]
  /\ lastPostAge = [p \in Platforms |-> NoPost]
  /\ activity = [t \in {"like", "repost"} |-> 0]
  /\ queue = <<>>
  /\ bounds = BoundsDoc(2, 2, {}, 1, 1)
  /\ rules = TimingDoc(95, {}, {}, {})
  /\ now = [hour |-> 9, minute |-> 0, day |-> "Monday"]
  /\ \E content \in HashtagContents, hashtags \in SeqsUpTo(Hashtags, MaxLen) :
       call = [fn |-> "addHashtags", content |-> content, hashtags |-> hashtags]
  /\ preResult = NoResult
  /\ IdleCommands
  /\ IdleRun

(* the rule's action on the content *)
ApplyHashtags ==
  /\ preResult = NoResult
  /\ preResult' = [applications |-> 1, content |-> addHashtags(call.content, call.hashtags),
                   once |-> addHashtags(call.content, call.hashtags)]
  /\ UNCHANGED <<storageVars, configVars, now, call, cmdVars, runVars>>

(* the same action on its own output *)
ApplyHashtagsAgain ==
  /\ preResult # NoResult
  /\ preResult.applications = 1
  /\ preResult' = [applications |-> 2, content |-> addHashtags(preResult.content, call.hashtags),
                   once |-> preResult.once]
  /\ UNCHANGED <<storageVars, configVars, now, call, cmdVars, runVars>>

NextHashtags == ApplyHashtags \/ ApplyHashtagsAgain

SpecHashtags == InitHashtags /\ [][NextHashtags]_vars

\* C21: add_hashtags is idempotent: for every content and every list of
\* hashtags (any case, with or without a leading '#', any script) the
\* content after two applications equals the content after one.
C21_AddHashtagsIdempotent ==
  (preResult # NoResult /\ preResult.applications = 2) =>
    preResult.content = preResult.once

----------------------------------------------------------------------------
(* Runs of pipelines whose for_each steps hold a nested step that fails    *)

(* a nested step naming a service outside `shared`: it fails *)
UnknownServiceStep(on_fail) ==
  Step("lookup", "", <<"local", "lookup">>, "", <<>>, "", <<>>, EnabledAbsent, on_fail)

FailingNestedSteps(on_fail) ==
  <<UnknownServiceStep(on_fail), ActionStep("send", "telegram_send", HourRef, "")>>

NestedStepDefs ==
  {ActionStep("send", "telegram_send", InputText, "")}
  \cup {ForEachStep("each", "hour", BestHoursPath, Undefined, FailingNestedSteps(f), "hours") :
          f \in {"", "stop", "continue"}}

InitNested ==
  /\ postsToday = [p \in Platforms |-> 0]
  /\ lastPostAge = [p \in Platforms |-> NoPost]
  /\ activity = [a \in {"post", "like", "repost"} |-> 0]
  /\ queue = <<>>
  /\ bounds = BoundsDoc(MaxCount, 2, {}, 2, 1)
  /\ \E best \in {{}, {8}, LoopHours} : rules = TimingDoc(95, best, {}, {})
  /\ now = [hour |-> 9, minute |-> 0, day |-> "Monday"]
  /\ IdleCalls
  /\ IdleCommands
  /\ IdleRun

runNestedPipeline ==
  /\ pc = "idle"
  /\ \E steps \in SeqsUpTo(NestedStepDefs, MaxSteps), dryRun \in BOOLEAN :
       StartRun(StepsPipeline(steps, NoConditions, NoHandlers, NoHandlers),
                RunOptions(FALSE, dryRun))

NextNested == runNestedPipeline \/ executeNextStep \/ runOnComplete

SpecNested == InitNested /\ [][NextNested]_vars

(* the n-th nested step of pass k of the i-th step failed under on_fail
   absent or `stop` *)
C25_NestedFailure(i, k, n) ==
  LET nested == stepLog[i].result.passes[k].results[n]
  IN /\ ~nested.success
     /\ ~nested.skipped
     /\ pipeline.steps[i].steps[n].on_fail \in {"", "stop"}

\* C25: when a nested step of a for_each fails (success=false, not skipped)
\* with on_fail absent or `stop`, no later nested step and no later
\* iteration is executed, the for_each step itself fails, and the run ends
\* with success=false.
C25_NestedFailureAborts ==
  StepsRun =>
    \A i \in 1..Len(stepLog) :
      pipeline.steps[i].for_each.present =>
        \A k \in 1..Len(stepLog[i].result.passes) :
          \A n \in 1..Len(stepLog[i].result.passes[k].results) :
            C25_NestedFailure(i, k, n) =>
              /\ k = Len(stepLog[i].result.passes)
              /\ n = Len(stepLog[i].result.passes[k].results)
              /\ ~stepLog[i].result.success
              /\ Returned => ~result.success

----------------------------------------------------------------------------
(* Phases of a run and their tasks (SpecRun)                               *)

(* the run is a `phases` run that passed its gate and has returned *)
C26_PhasesReturned ==
  /\ RunOfLoadedPipeline
  /\ pipeline.mode = "phases"
  /\ Returned
  /\ (options.force \/ ~pipeline.conditions.present
      \/ checkConditions(pipeline.conditions).passed)

(* the phase condition is absent or holds *)
C26_ConditionHolds(phase) ==
  phase.condition = <<>> \/ evaluateCondition(phase.condition, context)

(* the task actions of the phases whose condition holds, in list order *)
C26_Tasks ==
  Concat([p \in 1..Len(pipeline.phases) |->
            IF C26_ConditionHolds(pipeline.phases[p])
            THEN [t \in 1..Len(pipeline.phases[p].tasks) |-> pipeline.phases[p].tasks[t].action]
            ELSE <<>>])

----------------------------------------------------------------------------
(* The content queue: queue_pop among insertions, status updates and time  *)

NullTime == Undefined

(* the clock of datetime('now') is now.minute; it passes the one scheduled time *)
QueueTimes == {0, 1}

QueueChannels == {"x", "t"}

NoRow == [none |-> TRUE]

(* a mutant of Selected: rows scheduled for later are selected as well *)
SelectedNotYetDue(channel) ==
  {i \in 1..Len(queue) :
     /\ queue[i].status = "pending"
     /\ (channel = "" \/ queue[i].target_channel = channel)}

(* status = 'pending' AND (scheduled_at IS NULL OR scheduled_at <= datetime('now'))
   [AND target_channel = ?]: the positions of the rows selected *)
Selected(channel) ==
  {i \in 1..Len(queue) :
     /\ queue[i].status = "pending"
     /\ (queue[i].scheduled_at = NullTime \/ queue[i].scheduled_at <= now.minute)
     /\ (channel = "" \/ queue[i].target_channel = channel)}

(* ORDER BY priority DESC, created_at ASC: the positions that may come first *)
First(channel) ==
  {i \in Selected(channel) :
     \A j \in Selected(channel) :
       \/ queue[j].priority < queue[i].priority
       \/ (queue[j].priority = queue[i].priority /\ queue[i].created_at <= queue[j].created_at)}

(* LIMIT 1; NoRow stands for null.  Rows that tie on priority and
   created_at come in the order of the table scan, by id *)
getNextQueueItem(channel) ==
  IF First(channel) = {} THEN NoRow
  ELSE queue[CHOOSE i \in First(channel) : \A j \in First(channel) : i <= j]

(* the result of the queue_pop action for the row found *)
queuePopResult(item) ==
  IF item = NoRow THEN Skipped("Queue is empty") ELSE Success(item)

InitQueue ==
  /\ postsToday = [p \in Platforms |-> 0]
  /\ lastPostAge = [p \in Platforms |-> NoPost]
  /\ activity = [t \in {"like", "repost"} |-> 0]
  /\ queue = <<>>
  /\ bounds = BoundsDoc(2, 2, {}, 1, 1)
  /\ rules = TimingDoc(95, {}, {}, {})
  /\ now = [hour |-> 9, minute |-> 0, day |-> "Monday"]
  /\ IdleCalls
  /\ IdleCommands
  /\ IdleRun

addToContentQueue ==
  /\ Len(queue) < MaxFeed
  /\ \E channel \in QueueChannels, priority \in {0, 1}, scheduled_at \in {NullTime, 1} :
       queue' = Append(queue, [id |-> Len(queue) + 1, target_channel |-> channel,
                               status |-> "pending", priority |-> priority,
                               scheduled_at |-> scheduled_at, created_at |-> now.minute])
  /\ UNCHANGED <<postsToday, lastPostAge, activity, configVars, now, callVars, cmdVars, runVars>>

updateQueueItemStatus ==
  /\ \E id \in 1..Len(queue) :
       /\ queue[id].status = "pending"
       /\ queue' = [queue EXCEPT ![id].status = "posted"]
       /\ call' = [fn |-> "updateQueueItemStatus", id |-> id]
       /\ preResult' = NoResult
  /\ UNCHANGED <<postsToday, lastPostAge, activity, configVars, now, cmdVars, runVars>>

(* the queue_pop action of a run with the channel given ("" for none) *)
queuePop(channel) ==
  /\ \E item \in {getNextQueueItem(channel)} :
       /\ call' = [fn |-> "queue_pop", channel |-> channel]
       /\ preResult' = queuePopResult(item)
  /\ UNCHANGED <<storageVars, configVars, now, cmdVars, runVars>>

QueuePopCall == \E channel \in {"", "x"} : queuePop(channel)

(* time passes *)
QueueTick ==
  /\ now.minute + 1 \in QueueTimes
  /\ now' = [now EXCEPT !.minute = @ + 1]
  /\ UNCHANGED <<storageVars, configVars, callVars, cmdVars, runVars>>

NextQueue == addToContentQueue \/ updateQueueItemStatus \/ QueuePopCall \/ QueueTick

SpecQueue == InitQueue /\ [][NextQueue]_vars

(* the step is a queue_pop of the channel of the previous queue_pop, which
   returned an item, and no status was updated in between *)
C29_PopAgain(channel) ==
  /\ queuePop(channel)
  /\ call # NoCall
  /\ call.fn = "queue_pop"
  /\ call.channel = channel
  /\ ~preResult.skipped

C29_Eligible(i, channel) ==
  /\ queue[i].status = "pending"
  /\ (queue[i].scheduled_at = NullTime \/ queue[i].scheduled_at <= now.minute)
  /\ (channel # "" => queue[i].target_channel = channel)

(* no eligible row has a higher priority, or the same and an earlier creation *)
C29_Foremost(i, channel) ==
  /\ C29_Eligible(i, channel)
  /\ \A j \in 1..Len(queue) :
       C29_Eligible(j, channel) =>
         /\ queue[j].priority <= queue[i].priority
         /\ queue[j].priority = queue[i].priority => queue[i].created_at <= queue[j].created_at

----------------------------------------------------------------------------
(* The two caches of the rules document                                    *)
(* In these runs `rules` holds the three copies of the document: the file  *)
(* (yaml), the config loader's cachedRules (loader) and the rule engine's  *)
(* cachedRules (engine); a cache that is null holds NoRules.               *)

NoRules == [none |-> TRUE]

(* the versions of the rules file, told apart by timing.confidence *)
RulesFiles == {TimingDoc(c, {}, {}, {}) : c \in {30, 50, 95}}

(* loadRules(forceReload): the document returned, which is also the config
   loader's cache afterwards *)
loadRules(forceReload) ==
  IF rules.loader # NoRules /\ ~forceReload THEN rules.loader ELSE rules.yaml

(* getRules(): the document returned, which is also the engine's cache
   afterwards; a first use goes through loadRules(true) *)
getRules == IF rules.engine = NoRules THEN loadRules(TRUE) ELSE rules.engine

InitCache ==
  /\ postsToday = [p \in Platforms |-> 0]
  /\ lastPostAge = [p \in Platforms |-> NoPost]
  /\ activity = [t \in {"like", "repost"} |-> 0]
  /\ queue = <<>>
  /\ bounds = BoundsDoc(2, 2, {}, 1, 1)
  /\ \E file \in RulesFiles : rules = [yaml |-> file, loader |-> NoRules, engine |-> NoRules]
  /\ now = [hour |-> 9, minute |-> 0, day |-> "Monday"]
  /\ IdleCalls
  /\ IdleCommands
  /\ IdleRun

CacheFrame == UNCHANGED <<storageVars, bounds, now, cmdVars, runVars>>

(* the rules file is rewritten *)
WriteRulesYaml ==
  /\ \E file \in RulesFiles \ {rules.yaml} : rules' = [rules EXCEPT !.yaml = file]
  /\ call' = [fn |-> "write"]
  /\ preResult' = NoResult
  /\ CacheFrame

loadRulesCall ==
  /\ \E forceReload \in BOOLEAN :
       /\ rules' = [rules EXCEPT !.loader = loadRules(forceReload)]
       /\ call' = [fn |-> "loadRules", forceReload |-> forceReload]
       /\ preResult' = [rules |-> loadRules(forceReload)]
  /\ CacheFrame

clearConfigCache ==
  /\ rules' = [rules EXCEPT !.loader = NoRules]
  /\ call' = [fn |-> "clearConfigCache"]
  /\ preResult' = NoResult
  /\ CacheFrame

refreshRulesCall ==
  /\ rules' = [rules EXCEPT !.loader = loadRules(TRUE), !.engine = loadRules(TRUE)]
  /\ call' = [fn |-> "refreshRules"]
  /\ preResult' = NoResult
  /\ CacheFrame

(* a rule check (checkTimingRules, applyContentRules, shouldFollowBack):
   it consults getRules() *)
RuleCheck ==
  /\ rules' = [rules EXCEPT !.engine = getRules,
                            !.loader = IF rules.engine = NoRules THEN loadRules(TRUE) ELSE @]
  /\ call' = [fn |-> "checkTimingRules"]
  /\ preResult' = [confidence |-> getRules.timing.confidence]
  /\ CacheFrame

(* a run builds its ExecutionContext: context.rules = loadRules() *)
createContext ==
  /\ rules' = [rules EXCEPT !.loader = loadRules(FALSE)]
  /\ call' = [fn |-> "createContext"]
  /\ preResult' = [rules |-> loadRules(FALSE)]
  /\ CacheFrame

NextCache ==
  \/ WriteRulesYaml
  \/ loadRulesCall
  \/ clearConfigCache
  \/ refreshRulesCall
  \/ RuleCheck
  \/ createContext

SpecCache == InitCache /\ [][NextCache]_vars

\* C28: the rules caches stay coherent: the document in the rule engine's
\* private cache, which its checks consult, is the one a newly built
\* ExecutionContext obtains from loadRules(), and right after refreshRules()
\* both are the document on disk.
C28_CachesCoherent ==
  /\ rules.engine # NoRules => rules.engine = loadRules(FALSE)
  /\ (call # NoCall /\ call.fn = "refreshRules") =>
       (rules.engine = rules.yaml /\ loadRules(FALSE) = rules.yaml)

----------------------------------------------------------------------------
(* Two `post` commands for platform x, interleaved or one after the other  *)
(* In these runs `cmd` holds, for each of the two commands, its position   *)
(* (idle, posting between its pre-check and its record, denied, done) and  *)
(* the result of its pre-check, and whether the caller serializes them.    *)

Commands == {1, 2}

(* a mutant of MayStart: the caller never waits *)
MayStartAlways(r) == TRUE

(* the caller starts a command at once, or, when it serializes the
   commands of the platform, only while no other is under way *)
MayStart(r) ==
  cmd.serialized => \A other \in Commands \ {r} : cmd.pc[other] # "posting"

InitRace ==
  /\ \E maxPerDay \in 1..MaxCount :
       /\ bounds = BoundsDoc(maxPerDay, 2, {}, 2, 1)
       /\ postsToday \in [Platforms -> 0..maxPerDay]
  /\ lastPostAge = [p \in Platforms |-> IF postsToday[p] = 0 THEN NoPost ELSE MaxAge]
  /\ activity = [a \in {"post", "like", "repost"} |-> postsToday["x"]]
  /\ queue = <<>>
  /\ rules = TimingDoc(95, {}, {}, {})
  /\ now = [hour |-> 9, minute |-> 0, day |-> "Monday"]
  /\ IdleCalls
  /\ \E serialized \in BOOLEAN :
       cmd = [serialized |-> serialized,
              pc |-> [r \in Commands |-> "idle"],
              preCheck |-> [r \in Commands |-> NoResult]]
  /\ usedSkipChecks = FALSE
  /\ IdleRun

(* executePost up to the browser session: the pre-checks *)
startPost(r) ==
  /\ cmd.pc[r] # "posting"
  /\ MayStart(r)
  /\ postsToday["x"] <= MaxCount
  /\ LET preCheck == runPreChecks("post", "x", <<"a">>)
     IN cmd' = [cmd EXCEPT !.pc[r] = IF preCheck.allowed THEN "posting" ELSE "denied",
                           !.preCheck[r] = checkDailyLimits("post", "x")]
  /\ UNCHANGED <<storageVars, configVars, now, callVars, usedSkipChecks, runVars>>

(* the browser session of the command: postToX submits and records *)
finishPost(r) ==
  /\ cmd.pc[r] = "posting"
  /\ \E outcome \in BrowserOutcomes : postToX(outcome)
  /\ cmd' = [cmd EXCEPT !.pc[r] = "done"]
  /\ UNCHANGED <<queue, configVars, now, callVars, usedSkipChecks, runVars>>

NextRace ==
  \/ \E r \in Commands : startPost(r)
  \/ \E r \in Commands : finishPost(r)
  \/ Tick

SpecRace == InitRace /\ [][NextRace]_vars

\* C27: the daily-limit check and the recording of the post are not atomic,
\* so two interleaved commands can both pass the check at count = limit - 1
\* and record limit + 1 posts (the witness); with the commands of the
\* platform serialized the recorded count never exceeds the limit, and two
\* interleaved commands never exceed it by more than one.
C27_SerializedWithinLimit ==
  /\ cmd.serialized => postsToday["x"] <= bounds.sns.posting.max_per_day
  /\ postsToday["x"] <= bounds.sns.posting.max_per_day + 1

C27_Witness ==
  /\ ~cmd.serialized
  /\ postsToday["x"] = bounds.sns.posting.max_per_day + 1
  /\ \A r \in Commands :
       /\ cmd.pc[r] = "done"
       /\ cmd.preCheck[r].allowed
       /\ cmd.preCheck[r].current = bounds.sns.posting.max_per_day - 1

====
